---- MODULE Spec2Model ----
(***************************************************************************)
(* Verification model of the SwiftRoute route optimisation service:       *)
(* the tiered rate limiter and its request path, the in-memory graph and  *)
(* route caches, the improvement figures of an optimisation response and  *)
(* the vehicle network filter.                                            *)
(*                                                                         *)
(* Time is counted in clock ticks of 1/TicksPerSecond seconds, so that    *)
(* time.time() values that are not whole seconds are representable.       *)
(* Optional values (None or a value) are sets with at most one element.   *)
(***************************************************************************)
EXTENDS Integers, Sequences, FiniteSets, TLC

VARIABLES
    now,            \* time.time(), in ticks
    tier,           \* billing_tier of the API key whose rows are modelled
    usage_records,  \* rows of table usage_records for that key, in insertion order
    resp,           \* outcome of the last request through get_api_key / optimize_route
    reqCount,       \* requests sent so far
    faultCount,     \* requests so far in which a store call or the optimizer failed
    usage_summary,  \* what get_usage_summary returned last, if it was called
    limiterCall,    \* the last direct call of check_rate_limit: arguments and result
    tbpc,           \* per concurrent caller: "idle", "read" or "accepted", "done"
    tbLocal,        \* per caller: current_time and the bucket state read by fetch_one
    tbResult,       \* per caller: the RateLimitResult returned
    tbBase,         \* whole tokens the bucket held before the concurrent calls
    gcache,         \* GraphCache._cache: entries in OrderedDict order, oldest first
    gsize,          \* GraphCache._current_size_bytes
    rcache,         \* RouteCache._cache: entries in OrderedDict order, oldest first
    cacheOut,       \* the last cache call: cache, operation, key and returned value
    gUsed,          \* keys held by the graph cache, least recently used first
    rUsed,          \* keys held by the route cache, least recently used first
    fgraph,         \* the road graph given to filter_graph_by_vehicle
    fvehicle,       \* the VehicleProfile given to filter_graph_by_vehicle
    filtered,       \* the graph filter_graph_by_vehicle returned, if it was called
    roads,          \* the road graph RoadNetworkLoader.build_graph returns
    optOut,         \* the last optimize call: engine, request and response
    engineCache,    \* cache dict of the OSRM engine, in insertion order
    route_cache,    \* rows of table route_cache, one per unique key
    search          \* one call of AStarOptimizer: its graph, endpoints, state and result

rlVars == <<tier, usage_records, resp, reqCount, faultCount, usage_summary, limiterCall>>
tbVars == <<tbpc, tbLocal, tbResult, tbBase>>
cacheVars == <<gcache, gsize, rcache, cacheOut, gUsed, rUsed>>
filterVars == <<fgraph, fvehicle, filtered>>
optVars == <<roads, optOut>>
keyVars == <<engineCache, route_cache>>
searchVars == <<search>>
routeVars == <<filterVars, optVars, keyVars, searchVars>>
vars == <<now, rlVars, tbVars, cacheVars, routeVars>>

----------------------------------------------------------------------------
(* Bounds of the model *)

TicksPerSecond == 2
MaxRequests == 12
MaxFaults == 1
NumCallers == 2
MaxInitTokens == 3
MaxSizeMb == 2
MaxItems == 2
NumKeys == 3
NumRoutes == 2
MaxEdges == 2
MaxRoadKm == 3
EngineCacheMax == 2    \* stands for the 1000 entries the OSRM engine keeps
EngineCacheEvict == 1  \* stands for the 100 entries it then deletes
MaxCalls == 3
MaxOptCalls == 2

(* Program constants *)

WindowSeconds == 60
StarterPerMinute == 10
ProfessionalPerMinute == 50
EnterprisePerMinute == 200
FallbackLimit == 10
FallbackRemaining == 5
GraphTtlSeconds == 300
RouteTtlSeconds == 600
BytesPerMb == 1048576
EngineTtlSeconds == 3600
DbCacheMinutes == 30
MaxExecutionSeconds == 8

Window == WindowSeconds * TicksPerSecond
StartClock == 2 * Window
ClockOffsets == {0, 1, Window}
Callers == 1..NumCallers

None == {}
Some(v) == {v}
TheVal(o) == CHOOSE v \in o : TRUE

Max(a, b) == IF a >= b THEN a ELSE b
Min(a, b) == IF a <= b THEN a ELSE b

----------------------------------------------------------------------------
(* RateLimiter.tier_configs and RateLimiter.check_rate_limit's lookup *)

Tiers == {"starter", "professional", "enterprise", "trial"}

tier_configs ==
    [starter      |-> [requests_per_minute |-> StarterPerMinute,
                       strategy |-> "sliding_window"],
     professional |-> [requests_per_minute |-> ProfessionalPerMinute,
                       strategy |-> "sliding_window"],
     enterprise   |-> [requests_per_minute |-> EnterprisePerMinute,
                       strategy |-> "token_bucket"]]

\* self.tier_configs.get(billing_tier, self.tier_configs['starter'])
TierConfig(t) ==
    IF t \in DOMAIN tier_configs THEN tier_configs[t] ELSE tier_configs["starter"]

\* A row of usage_records.  bucket is None for a request row and holds the
\* bucket_state (tokens in 1/(60*TicksPerSecond) of a token) for a bucket row.
UsageRow(ep, t, ok) ==
    [endpoint |-> ep, created_at |-> t, success |-> ok, bucket |-> None]

BucketRow(ep, t, tokens) ==
    [endpoint |-> ep, created_at |-> t, success |-> TRUE,
     bucket |-> Some([tokens |-> tokens, last_refill |-> t])]

RateLimitResult(allowed, limit, remaining, reset_time, retry_after, strategy) ==
    [allowed |-> allowed, limit |-> limit, remaining |-> remaining,
     reset_time |-> reset_time, retry_after |-> retry_after,
     strategy |-> strategy]

\* RateLimitResult.to_headers: Retry-After is emitted when retry_after is truthy
HasRetryAfterHeader(r) == \E v \in r.retry_after : v # 0

RowsWhere(rows, P(_)) == {i \in 1..Len(rows) : P(rows[i])}

\* SELECT COUNT(*) ... WHERE created_at > to_timestamp(window_start) AND endpoint = ep
CountSince(rows, start, ep) ==
    Cardinality({i \in 1..Len(rows) :
                    rows[i].created_at > start /\ rows[i].endpoint = ep})

\* SELECT MIN(EXTRACT(EPOCH FROM created_at)) over the same rows
OldestSince(rows, start, ep) ==
    LET S == {rows[i].created_at : i \in {j \in 1..Len(rows) :
                    rows[j].created_at > start /\ rows[j].endpoint = ep}}
    IN IF S = {} THEN None ELSE Some(CHOOSE t \in S : \A u \in S : t <= u)

\* RateLimiter._check_sliding_window
SlidingRetryAfter(rows, t, ep) ==
    LET oldest == OldestSince(rows, t - Window, ep)
    IN IF oldest # None /\ TheVal(oldest) # 0
       THEN Some((TheVal(oldest) + Window - t) \div TicksPerSecond)
       ELSE None

\* the sliding window with its comparison made inclusive
CheckSlidingWindow_Inclusive(rows, t, config, ep) ==
    LET current_count == CountSince(rows, t - Window, ep)
        limit == config.requests_per_minute
        allowed == current_count <= limit
    IN RateLimitResult(allowed, limit, Max(0, limit - current_count),
                       ((t \div Window) + 1) * WindowSeconds,
                       IF allowed THEN None ELSE SlidingRetryAfter(rows, t, ep),
                       "sliding_window")

CheckSlidingWindow(rows, t, config, ep) ==
    LET current_count == CountSince(rows, t - Window, ep)
        limit == config.requests_per_minute
        allowed == current_count < limit
    IN RateLimitResult(allowed, limit, Max(0, limit - current_count),
                       ((t \div Window) + 1) * WindowSeconds,
                       IF allowed THEN None ELSE SlidingRetryAfter(rows, t, ep),
                       "sliding_window")

\* RateLimiter._check_fixed_window
CheckFixedWindow(rows, t, config, ep) ==
    LET window_start == t - (t % Window)
        current_count ==
            Cardinality({i \in 1..Len(rows) :
                /\ rows[i].created_at >= window_start
                /\ rows[i].created_at < window_start + Window
                /\ rows[i].endpoint = ep})
        limit == config.requests_per_minute
        allowed == current_count < limit
        reset_time == (window_start + Window) \div TicksPerSecond
    IN RateLimitResult(allowed, limit, Max(0, limit - current_count), reset_time,
                       IF allowed THEN None
                       ELSE Some(reset_time - (t \div TicksPerSecond)),
                       "fixed_window")

----------------------------------------------------------------------------
(* RateLimiter._check_token_bucket, split at its two awaits *)

TokenUnit == WindowSeconds * TicksPerSecond   \* stored units per whole token

BucketEndpoint(ep) == "bucket_" \o ep

\* fetch_one(bucket_query): the latest row of the bucket endpoint holding a
\* bucket_state; a fresh bucket when there is none
ReadBucket(rows, t, config, ep) ==
    LET S == {i \in 1..Len(rows) :
                 rows[i].endpoint = BucketEndpoint(ep) /\ rows[i].bucket # None}
    IN IF S = {}
       THEN [tokens |-> config.requests_per_minute * TokenUnit, last_refill |-> t]
       ELSE TheVal(rows[CHOOSE i \in S : \A j \in S : j <= i].bucket)

\* tokens = min(capacity, tokens + time_elapsed * refill_rate)
Refill(state, t, config) ==
    Min(config.requests_per_minute * TokenUnit,
        state.tokens + (t - state.last_refill) * config.requests_per_minute)

TokenAllowed(tokens) == tokens >= TokenUnit

\* the bucket charged for a denied request too
TokensAfter_Always(tokens) == tokens - TokenUnit

TokensAfter(tokens) == IF TokenAllowed(tokens) THEN tokens - TokenUnit ELSE tokens

TokenBucketResult(state, t, config) ==
    LET refilled == Refill(state, t, config)
        left == TokensAfter(refilled)
        rpm == config.requests_per_minute
    IN RateLimitResult(TokenAllowed(refilled), rpm, left \div TokenUnit,
                       (t * rpm + rpm * TokenUnit - left) \div (TicksPerSecond * rpm),
                       None, "token_bucket")

\* the row written by db_manager.execute(INSERT ...) at the end of the check
TokenBucketRow(state, t, config, ep) ==
    BucketRow(BucketEndpoint(ep), t, TokensAfter(Refill(state, t, config)))

\* the except branch of check_rate_limit: fail open
ErrorFallback(t) ==
    RateLimitResult(TRUE, FallbackLimit, FallbackRemaining,
                    (t \div TicksPerSecond) + WindowSeconds, None, "error_fallback")

\* the store call or collaborator that fails during a request, if any
Faults == {"none", "key_lookup", "usage_count", "rl_fetch", "rl_fetch_oldest",
           "rl_execute", "optimize", "record_insert"}

\* The strategy's coroutine as check_rate_limit awaits it: raised is TRUE when
\* one of its store calls fails, and then nothing has been written.
StrategyCheck(rows, t, config, ep, fault) ==
    IF config.strategy = "sliding_window"
    THEN LET r == CheckSlidingWindow(rows, t, config, ep)
         IN [raised |-> fault = "rl_fetch" \/ (fault = "rl_fetch_oldest" /\ ~r.allowed),
             result |-> r, rows |-> rows]
    ELSE IF config.strategy = "token_bucket"
    THEN LET state == ReadBucket(rows, t, config, ep)
         IN [raised |-> fault \in {"rl_fetch", "rl_execute"},
             result |-> TokenBucketResult(state, t, config),
             rows |-> IF fault \in {"rl_fetch", "rl_execute"} THEN rows
                      ELSE Append(rows, TokenBucketRow(state, t, config, ep))]
    ELSE [raised |-> fault = "rl_fetch",
          result |-> CheckFixedWindow(rows, t, config, ep), rows |-> rows]

\* mutation: the store failure is answered with a denial instead of failing open
CheckRateLimit_FailClosed(rows, t, billing_tier, ep, fault) ==
    LET c == StrategyCheck(rows, t, TierConfig(billing_tier), ep, fault)
    IN IF c.raised
       THEN [c EXCEPT !.result = RateLimitResult(FALSE, FallbackLimit, 0,
                                   (t \div TicksPerSecond) + WindowSeconds,
                                   None, "error_fallback")]
       ELSE c

\* RateLimiter.check_rate_limit: try the tier's strategy, fail open on any exception
CheckRateLimit(rows, t, billing_tier, ep, fault) ==
    LET c == StrategyCheck(rows, t, TierConfig(billing_tier), ep, fault)
    IN IF c.raised THEN [c EXCEPT !.result = ErrorFallback(t)] ELSE c

----------------------------------------------------------------------------
(* lib/auth.py *)

\* validate_api_key: the rate_limits table and the usage count of the last
\* minute over all endpoints.  None when a store call fails.
AuthLimit(t) ==
    IF t = "professional" THEN ProfessionalPerMinute
    ELSE IF t = "enterprise" THEN EnterprisePerMinute
    ELSE StarterPerMinute

ValidateApiKey(rows, t, billing_tier, fault) ==
    LET current_usage ==
            Cardinality({i \in 1..Len(rows) : rows[i].created_at > t - Window})
        limit == AuthLimit(billing_tier)
    IN IF fault \in {"key_lookup", "usage_count"}
       THEN None
       ELSE IF current_usage >= limit
       THEN Some([rate_limited |-> TRUE, requests_remaining |-> 0])
       ELSE Some([rate_limited |-> FALSE,
                  requests_remaining |-> limit - current_usage])

\* record_usage: the INSERT; a failing store call is swallowed
RecordUsage(rows, t, ep, ok, fault) ==
    IF fault = "record_insert" THEN rows ELSE Append(rows, UsageRow(ep, t, ok))

----------------------------------------------------------------------------
(* main.py: get_api_key and optimize_route *)

\* fault is the failure injected into the request, kept with the outcome
\* and rl_raised tells whether the rate limiter's strategy raised
Response(status, code, rl, limited, raised) ==
    [status |-> status, code |-> code, rl |-> rl, rate_limited |-> limited,
     rl_raised |-> raised, fault |-> "none"]

\* get_api_key.  Every HTTPException raised inside its try block is caught by
\* "except Exception" and re-raised as 500 AUTHENTICATION_ERROR.
\* pass is TRUE when key_info is returned to the endpoint.
GetApiKey(rows, t, billing_tier, fault) ==
    LET key_info == ValidateApiKey(rows, t, billing_tier, fault)
    IN IF key_info = None
       THEN [pass |-> FALSE, rows |-> rows,
             resp |-> Response(500, "AUTHENTICATION_ERROR", None, FALSE, FALSE)]
       ELSE IF TheVal(key_info).rate_limited
       THEN [pass |-> TRUE, rows |-> rows,
             resp |-> Response(200, "OK", None, TRUE, FALSE)]
       ELSE LET c == CheckRateLimit(rows, t, billing_tier, "default", fault)
            IN IF ~c.result.allowed
               THEN [pass |-> FALSE, rows |-> c.rows,
                     resp |-> Response(500, "AUTHENTICATION_ERROR",
                                       Some(c.result), FALSE, c.raised)]
               ELSE [pass |-> TRUE, rows |-> c.rows,
                     resp |-> Response(200, "OK", Some(c.result), FALSE, c.raised)]

\* optimize_route after the dependency has passed: the optimizer runs and the
\* request is recorded, as a success or as an OPTIMIZATION_ERROR
OptimizeRoute(g, t, fault) ==
    IF fault = "optimize"
    THEN [rows |-> RecordUsage(g.rows, t, "/optimize", FALSE, fault),
          resp |-> [g.resp EXCEPT !.status = 500, !.code = "OPTIMIZATION_ERROR"]]
    ELSE [rows |-> RecordUsage(g.rows, t, "/optimize", TRUE, fault),
          resp |-> g.resp]

HandleRequest(rows, t, billing_tier, fault) ==
    LET g == GetApiKey(rows, t, billing_tier, fault)
    IN IF g.pass THEN OptimizeRoute(g, t, fault)
       ELSE [rows |-> g.rows, resp |-> g.resp]

----------------------------------------------------------------------------
(* Specification of the request path of one API key *)

NoResponse == Response(0, "NONE", None, FALSE, FALSE)

\* no direct call of check_rate_limit yet
NoLimiterCall ==
    [billing_tier |-> "none", endpoint |-> "none", current_time |-> 0,
     rows |-> <<>>, result |-> None]

NoCall == [cache |-> "none", op |-> "none", key |-> 0, value |-> None, expired |-> FALSE]

FilterIdle ==
    /\ fgraph = [nodes |-> {}, edges |-> [e \in {} |-> 0]]
    /\ fvehicle = 0
    /\ filtered = {}

NoOptimize ==
    [engine |-> "none", request |-> {}, response |-> {}, cached |-> FALSE,
     cause |-> "none", raised |-> {}, fault |-> "none"]

OptIdle ==
    /\ roads = [nodes |-> {}, edges |-> [e \in {} |-> 0]]
    /\ optOut = NoOptimize

KeysIdle ==
    /\ engineCache = <<>>
    /\ route_cache = {}

NoSearch ==
    [state |-> "none", graph |-> [nodes |-> {}, edges |-> [e \in {} |-> 0]],
     origin |-> 0, destination |-> 0, start_time |-> 0, end_time |-> 0,
     result |-> {}, routes |-> <<>>, num_alternatives |-> 0]

SearchIdle == search = NoSearch

RouteIdle == FilterIdle /\ OptIdle /\ KeysIdle /\ SearchIdle

CacheIdle ==
    /\ gcache = <<>>
    /\ gsize = 0
    /\ rcache = <<>>
    /\ cacheOut = NoCall
    /\ gUsed = <<>>
    /\ rUsed = <<>>

TBIdle ==
    /\ tbpc = [c \in Callers |-> "idle"]
    /\ tbLocal = [c \in Callers |-> None]
    /\ tbResult = [c \in Callers |-> None]
    /\ tbBase = 0

InitRL ==
    /\ now = StartClock
    /\ tier \in Tiers
    /\ usage_records = <<>>
    /\ resp = NoResponse
    /\ reqCount = 0
    /\ faultCount = 0
    /\ usage_summary = None
    /\ limiterCall = NoLimiterCall
    /\ TBIdle
    /\ CacheIdle
    /\ RouteIdle

\* POST /optimize
Request ==
    /\ reqCount < MaxRequests
    /\ \E fault \in Faults :
          LET h == HandleRequest(usage_records, now, tier, fault)
          IN /\ fault # "none" => faultCount < MaxFaults
             /\ usage_records' = h.rows
             /\ resp' = [h.resp EXCEPT !.fault = fault]
             /\ faultCount' = faultCount + (IF fault = "none" THEN 0 ELSE 1)
    /\ reqCount' = reqCount + 1
    /\ UNCHANGED <<now, tier, usage_summary, limiterCall, tbVars, cacheVars, routeVars>>

\* time passes
Advance ==
    /\ \E o \in ClockOffsets : StartClock + o > now /\ now' = StartClock + o
    /\ UNCHANGED <<rlVars, tbVars, cacheVars, routeVars>>

NextRL == Request \/ Advance

SpecRL == InitRL /\ [][NextRL]_vars

----------------------------------------------------------------------------
(* Specification of concurrent _check_token_bucket calls on one key and     *)
(* endpoint.  Each caller runs the coroutine once; the event loop may switch *)
(* to another caller at each await (fetch_one, execute).                     *)

InitBuckets ==
    {k * TokenUnit + f : k \in 0..MaxInitTokens, f \in {0, TokenUnit \div 2}}

InitTB ==
    /\ now = StartClock
    /\ tier = "enterprise"
    /\ \/ usage_records = <<>> /\ tbBase = EnterprisePerMinute * TokenUnit
       \/ \E k \in InitBuckets :
             /\ usage_records = <<BucketRow(BucketEndpoint("default"), StartClock, k)>>
             /\ tbBase = k
    /\ resp = NoResponse
    /\ reqCount = 0
    /\ faultCount = 0
    /\ usage_summary = None
    /\ limiterCall = NoLimiterCall
    /\ tbpc = [c \in Callers |-> "idle"]
    /\ tbLocal = [c \in Callers |-> None]
    /\ tbResult = [c \in Callers |-> None]
    /\ CacheIdle
    /\ RouteIdle

\* current_time = time.time(); result = await fetch_one(bucket_query, ...)
TBRead(c) ==
    /\ tbpc[c] = "idle"
    /\ tbLocal' = [tbLocal EXCEPT ![c] =
          Some([current_time |-> now,
                state |-> ReadBucket(usage_records, now, TierConfig(tier), "default")])]
    /\ tbpc' = [tbpc EXCEPT ![c] = "read"]
    /\ UNCHANGED <<now, rlVars, tbResult, tbBase, cacheVars, routeVars>>

\* refill, decide, await execute(INSERT ...), return the RateLimitResult
TBWrite(c) ==
    /\ tbpc[c] = "read"
    /\ LET l == TheVal(tbLocal[c])
       IN /\ usage_records' = Append(usage_records,
                 TokenBucketRow(l.state, l.current_time, TierConfig(tier), "default"))
          /\ tbResult' = [tbResult EXCEPT ![c] =
                 Some(TokenBucketResult(l.state, l.current_time, TierConfig(tier)))]
    /\ tbpc' = [tbpc EXCEPT ![c] = "done"]
    /\ UNCHANGED <<now, tier, resp, reqCount, faultCount, usage_summary, limiterCall,
                 tbLocal, tbBase,
                 cacheVars, routeVars>>

NextTB == (\E c \in Callers : TBRead(c)) \/ (\E c \in Callers : TBWrite(c)) \/ Advance

SpecTB == InitTB /\ [][NextTB]_vars

AllDone == \A c \in Callers : tbpc[c] = "done"

AllowedCalls == Cardinality({c \in Callers : tbResult[c] # None /\ TheVal(tbResult[c]).allowed})

StoredTokens == ReadBucket(usage_records, now, TierConfig(tier), "default").tokens

\* C2: concurrent _check_token_bucket calls on one key and endpoint, with no
\* refill in between, never spend a token twice: the calls that return
\* allowed are at most the whole tokens the bucket held before them, and the
\* stored count afterwards is the earlier count minus the allowed calls.
C2_NoDoubleSpend ==
    (AllDone /\ now = StartClock) =>
        /\ AllowedCalls * TokenUnit <= tbBase
        /\ StoredTokens = tbBase - AllowedCalls * TokenUnit

----------------------------------------------------------------------------
(* utils/cache.py: GraphCache and RouteCache *)

Keys == 1..NumKeys

\* cached graphs, told apart by their estimated size in megabytes; the largest
\* one alone exceeds the capacity
GraphValues == 1..(MaxSizeMb + 1)

\* GraphCache._get_size
GetSize(value) == value * BytesPerMb

Routes == 1..NumRoutes

max_size_bytes == MaxSizeMb * BytesPerMb
GraphTtl == GraphTtlSeconds * TicksPerSecond
RouteTtl == RouteTtlSeconds * TicksPerSecond
\* the instants of the calls on a cache: an entry set at the first one is
\* exactly ttl old at the second and one tick older at the third
CacheInstants(ttl) == {StartClock, StartClock + ttl, StartClock + ttl + 1}

HasKey(cache, k) == \E i \in 1..Len(cache) : cache[i].key = k
IndexOf(cache, k) == CHOOSE i \in 1..Len(cache) : cache[i].key = k
Entry(cache, k) == cache[IndexOf(cache, k)]
Without(cache, k) == SelectSeq(cache, LAMBDA e : e.key # k)
CachedKeys(cache) == {cache[i].key : i \in 1..Len(cache)}

\* the expiry test with its operands exchanged: nothing ever expires
IsExpired_Swapped(timestamp, t, ttl) == timestamp - t > ttl

\* GraphCache._is_expired and the inline test of RouteCache.get_route
IsExpired(timestamp, t, ttl) == t - timestamp > ttl

\* GraphCache._evict_if_needed: pop from the front while the new item does not fit
RECURSIVE EvictIfNeeded(_, _, _)
EvictIfNeeded(cache, current_size, new_item_size) ==
    IF current_size + new_item_size > max_size_bytes /\ Len(cache) > 0
    THEN EvictIfNeeded(Tail(cache), current_size - Head(cache).size, new_item_size)
    ELSE [cache |-> cache, size |-> current_size]

\* a get that drops an expired entry and leaves the byte total as it was
GraphGet_KeepSize(cache, current_size, k, t) ==
    IF ~HasKey(cache, k)
    THEN [cache |-> cache, size |-> current_size, value |-> None, expired |-> FALSE]
    ELSE LET e == Entry(cache, k)
         IN IF IsExpired(e.timestamp, t, GraphTtl)
            THEN [cache |-> Without(cache, k), size |-> current_size,
                  value |-> None, expired |-> TRUE]
            ELSE [cache |-> Append(Without(cache, k), e), size |-> current_size,
                  value |-> Some(e.value), expired |-> FALSE]

\* GraphCache.get
GraphGet(cache, current_size, k, t) ==
    IF ~HasKey(cache, k)
    THEN [cache |-> cache, size |-> current_size, value |-> None, expired |-> FALSE]
    ELSE LET e == Entry(cache, k)
         IN IF IsExpired(e.timestamp, t, GraphTtl)
            THEN [cache |-> Without(cache, k), size |-> current_size - e.size,
                  value |-> None, expired |-> TRUE]
            ELSE [cache |-> Append(Without(cache, k), e), size |-> current_size,
                  value |-> Some(e.value), expired |-> FALSE]

\* a set that keeps the byte bound by not storing a value larger than the cache
GraphSet_RefuseOversize(cache, current_size, k, value, t) ==
    LET size == GetSize(value)
        removed == Without(cache, k)
        after == IF HasKey(cache, k) THEN current_size - Entry(cache, k).size
                 ELSE current_size
        ev == EvictIfNeeded(removed, after, size)
    IN IF size > max_size_bytes
       THEN [cache |-> removed, size |-> after]
       ELSE [cache |-> Append(ev.cache, [key |-> k, value |-> value,
                                         timestamp |-> t, size |-> size]),
             size |-> ev.size + size]

\* GraphCache.set
GraphSet(cache, current_size, k, value, t) ==
    LET size == GetSize(value)
        removed == Without(cache, k)
        after == IF HasKey(cache, k) THEN current_size - Entry(cache, k).size
                 ELSE current_size
        ev == EvictIfNeeded(removed, after, size)
    IN [cache |-> Append(ev.cache, [key |-> k, value |-> value,
                                    timestamp |-> t, size |-> size]),
        size |-> ev.size + size]

\* RouteCache.get_route, for the key made by _generate_route_key
RouteGet(cache, k, t) ==
    IF ~HasKey(cache, k)
    THEN [cache |-> cache, value |-> None, expired |-> FALSE]
    ELSE LET e == Entry(cache, k)
         IN IF IsExpired(e.timestamp, t, RouteTtl)
            THEN [cache |-> Without(cache, k), value |-> None, expired |-> TRUE]
            ELSE [cache |-> Append(Without(cache, k), e), value |-> Some(e.value),
                  expired |-> FALSE]

\* RouteCache.set_route: popitem(last=False) at capacity for a new key, then
\* self._cache[key] = ..., which keeps the position of a key already present
RouteSet(cache, k, route, t) ==
    LET e == [key |-> k, value |-> route, timestamp |-> t]
        room == IF Len(cache) >= MaxItems /\ ~HasKey(cache, k)
                THEN Tail(cache) ELSE cache
    IN IF HasKey(room, k)
       THEN [room EXCEPT ![IndexOf(room, k)] = e]
       ELSE Append(room, e)

\* expired tells that a get took the expiry branch
Call(cache, op, k, value, expired) ==
    [cache |-> cache, op |-> op, key |-> k, value |-> value, expired |-> expired]

\* the order of last use (a get hit or a set) of the keys a cache holds
Used(used, held, k, touched) ==
    LET rest == SelectSeq(used, LAMBDA x : x \in held /\ x # k)
    IN IF touched /\ k \in held THEN Append(rest, k) ELSE
       SelectSeq(used, LAMBDA x : x \in held)

\* GraphCache (cache.py l.14) and RouteCache (l.167) are separate objects
\* that share no field: a behaviour is a sequence of calls on one of them,
\* and cacheOut.cache tells which
NoCallOn(c) == [NoCall EXCEPT !.cache = c]

InitCache ==
    /\ now = StartClock
    /\ tier = "starter"
    /\ usage_records = <<>>
    /\ resp = NoResponse
    /\ reqCount = 0
    /\ faultCount = 0
    /\ usage_summary = None
    /\ limiterCall = NoLimiterCall
    /\ TBIdle
    /\ gcache = <<>>
    /\ gsize = 0
    /\ rcache = <<>>
    /\ cacheOut \in {NoCallOn(c) : c \in {"graph", "route"}}
    /\ gUsed = <<>>
    /\ rUsed = <<>>
    /\ RouteIdle

GCGet(k) ==
    /\ cacheOut.cache = "graph"
    /\ LET g == GraphGet(gcache, gsize, k, now)
       IN /\ gcache' = g.cache
          /\ gsize' = g.size
          /\ cacheOut' = Call("graph", "get", k, g.value, g.expired)
          /\ gUsed' = Used(gUsed, CachedKeys(g.cache), k, g.value # None)
    /\ UNCHANGED <<now, rlVars, tbVars, rcache, rUsed, routeVars>>

GCSet(k, v) ==
    /\ cacheOut.cache = "graph"
    /\ LET g == GraphSet(gcache, gsize, k, v, now)
       IN /\ gcache' = g.cache
          /\ gsize' = g.size
          /\ gUsed' = Used(gUsed, CachedKeys(g.cache), k, TRUE)
    /\ cacheOut' = Call("graph", "set", k, Some(v), FALSE)
    /\ UNCHANGED <<now, rlVars, tbVars, rcache, rUsed, routeVars>>

GCClear ==
    /\ cacheOut.cache = "graph"
    /\ gcache' = <<>>
    /\ gsize' = 0
    /\ cacheOut' = Call("graph", "clear", 0, None, FALSE)
    /\ gUsed' = <<>>
    /\ UNCHANGED <<now, rlVars, tbVars, rcache, rUsed, routeVars>>

RCGet(k) ==
    /\ cacheOut.cache = "route"
    /\ LET g == RouteGet(rcache, k, now)
       IN /\ rcache' = g.cache
          /\ cacheOut' = Call("route", "get", k, g.value, g.expired)
          /\ rUsed' = Used(rUsed, CachedKeys(g.cache), k, g.value # None)
    /\ UNCHANGED <<now, rlVars, tbVars, gcache, gsize, gUsed, routeVars>>

RCSet(k, v) ==
    /\ cacheOut.cache = "route"
    /\ rcache' = RouteSet(rcache, k, v, now)
    /\ rUsed' = Used(rUsed, CachedKeys(RouteSet(rcache, k, v, now)), k, TRUE)
    /\ cacheOut' = Call("route", "set", k, Some(v), FALSE)
    /\ UNCHANGED <<now, rlVars, tbVars, gcache, gsize, gUsed, routeVars>>

RCClear ==
    /\ cacheOut.cache = "route"
    /\ rcache' = <<>>
    /\ cacheOut' = Call("route", "clear", 0, None, FALSE)
    /\ rUsed' = <<>>
    /\ UNCHANGED <<now, rlVars, tbVars, gcache, gsize, gUsed, routeVars>>

AdvanceCache ==
    /\ \E t \in CacheInstants(IF cacheOut.cache = "graph" THEN GraphTtl ELSE RouteTtl) :
          t > now /\ now' = t
    /\ UNCHANGED <<rlVars, tbVars, cacheVars, routeVars>>

NextCache ==
    \/ \E k \in Keys : GCGet(k)
    \/ \E k \in Keys, v \in GraphValues : GCSet(k, v)
    \/ GCClear
    \/ \E k \in Keys : RCGet(k)
    \/ \E k \in Keys, v \in Routes : RCSet(k, v)
    \/ RCClear
    \/ AdvanceCache

SpecCache == InitCache /\ [][NextCache]_vars

----------------------------------------------------------------------------
(* Claims about the request path *)

Served(r) == r.status = 200

DeniedWithRetryAfter(r) ==
    /\ ~Served(r)
    /\ r.rl # None
    /\ ~TheVal(r.rl).allowed
    /\ \E v \in TheVal(r.rl).retry_after : v > 0

\* C1: for a starter key sending requests one after the other from a window
\* without usage records, with no failure on the way, the 10th request is
\* allowed and the 11th is denied with retry_after > 0.
C1_SlidingBoundary ==
    (tier = "starter" /\ faultCount = 0 /\ now < StartClock + Window) =>
        /\ reqCount = StarterPerMinute => Served(resp)
        /\ reqCount = StarterPerMinute + 1 => DeniedWithRetryAfter(resp)

\* C3: when a backing-store call fails during check_rate_limit, for every
\* tier, the check returns allowed with limit 10 and remaining 5 (half of
\* the limit) and the request is not denied.
C3_FailOpen ==
    resp.rl_raised =>
        /\ resp.rl # None
        /\ TheVal(resp.rl).allowed
        /\ TheVal(resp.rl).limit = FallbackLimit
        /\ 2 * TheVal(resp.rl).remaining = TheVal(resp.rl).limit
        /\ Served(resp)

C3_Witness ==
    /\ resp.rl_raised
    /\ resp.fault = "rl_execute"
    /\ tier = "enterprise"
    /\ Served(resp)

\* C26: a key that validate_api_key reports as rate_limited (its usage
\* records of the last minute have reached the tier limit) is not served:
\* get_api_key rejects the request instead of returning key_info to the
\* optimize endpoint.
C26_RateLimitedNotServed ==
    resp.rate_limited => (~Served(resp) /\ resp.code # "OK")

\* The request path of an enterprise key whose token bucket, after earlier
\* requests, holds only a few tokens.
InitDrained == InitTB

SpecDrained == InitDrained /\ [][NextRL]_vars

\* check_rate_limit answered the request with allowed = false
Denied(r) == r.rl # None /\ ~TheVal(r.rl).allowed

\* C25: a request that RateLimiter.check_rate_limit denies is answered by
\* get_api_key with HTTP status 429 and error code RATE_LIMIT_EXCEEDED; the
\* denial is never turned into a 500 AUTHENTICATION_ERROR response.
C25_DenialIs429 ==
    Denied(resp) =>
        /\ resp.status = 429
        /\ resp.code = "RATE_LIMIT_EXCEEDED"
        /\ resp.code # "AUTHENTICATION_ERROR"

----------------------------------------------------------------------------
(* Claims about the caches *)

Age(cache, k) == now - Entry(cache, k).timestamp

\* C5: a get of an entry older than the TTL returns a miss and removes the
\* entry (GraphCache also subtracts its size from the byte total); a value
\* older than the TTL is never returned.
C5_ExpiredIsMiss ==
    [][\A k \in Keys :
        /\ (GCGet(k) /\ HasKey(gcache, k) /\ Age(gcache, k) > GraphTtl) =>
              /\ cacheOut'.value = None
              /\ ~HasKey(gcache', k)
              /\ gsize' = gsize - Entry(gcache, k).size
        /\ (RCGet(k) /\ HasKey(rcache, k) /\ Age(rcache, k) > RouteTtl) =>
              /\ cacheOut'.value = None
              /\ ~HasKey(rcache', k)]_vars

C5_Witness ==
    /\ cacheOut.cache = "graph"
    /\ cacheOut.op = "get"
    /\ cacheOut.expired
    /\ gcache # <<>>
    /\ gsize > 0

Position(used, k) == CHOOSE i \in 1..Len(used) : used[i] = k

\* the keys a set evicted each were used before every key that stayed
EvictsLeastRecent(before, after, used, inserted) ==
    \A e \in CachedKeys(before) \ (CachedKeys(after) \cup {inserted}) :
        \A kept \in (CachedKeys(before) \cap CachedKeys(after)) \ {inserted} :
            Position(used, e) < Position(used, kept)

\* C6: when an insert evicts to make room, the entries evicted are the least
\* recently used ones (a use is the latest get hit or the latest set,
\* overwrites included): no entry is evicted while one used less recently stays.
C6_EvictsLru ==
    [][\A k \in Keys :
        /\ (\E v \in GraphValues : GCSet(k, v)) =>
              EvictsLeastRecent(gcache, gcache', gUsed, k)
        /\ (\E v \in Routes : RCSet(k, v)) =>
              EvictsLeastRecent(rcache, rcache', rUsed, k)]_vars

\* C7: after every GraphCache.set the byte total is at most max_size_bytes.
C7_SizeBound ==
    (cacheOut.cache = "graph" /\ cacheOut.op = "set") => gsize <= max_size_bytes

\* C9: set(k, v) followed at once by get(k), within the TTL, returns v, for
\* both caches, whatever the cache held before and whatever the size of v.
C9_SetThenGet ==
    [][\A k \in Keys :
        /\ (/\ cacheOut.cache = "graph" /\ cacheOut.op = "set" /\ cacheOut.key = k
            /\ GCGet(k)
            /\ HasKey(gcache, k) => Age(gcache, k) <= GraphTtl)
           => cacheOut'.value = cacheOut.value
        /\ (/\ cacheOut.cache = "route" /\ cacheOut.op = "set" /\ cacheOut.key = k
            /\ RCGet(k)
            /\ HasKey(rcache, k) => Age(rcache, k) <= RouteTtl)
           => cacheOut'.value = cacheOut.value]_vars

\* a get returned a value larger than the whole cache, right after its set
C9_Witness ==
    /\ cacheOut.cache = "graph"
    /\ cacheOut.op = "get"
    /\ cacheOut.value = Some(MaxSizeMb + 1)
    /\ gsize > max_size_bytes

----------------------------------------------------------------------------
(* The vehicle network filter: lib/gnn/network/filters.py and              *)
(* gnn/models/vehicle.py.  Heights, widths and lengths are in tenths of a  *)
(* metre, weights in kilograms.  A dict is a function; dict.get is Get.    *)

EmptyDict == [k \in {} |-> 0]

Get(dict, k, default) == IF k \in DOMAIN dict THEN dict[k] ELSE default

\* str.lower on the strings of the model
Lower(str) ==
    CASE str = "Trunk" -> "trunk"
      [] str = "Motorway" -> "motorway"
      [] str = "Gravel" -> "gravel"
      [] OTHER -> str

\* float(text), in tenths; None stands for ValueError
ParseFloat(text) ==
    CASE text = "0" -> Some(0)
      [] text = "2" -> Some(20)
      [] text = "3.5" -> Some(35)
      [] text = "7.5" -> Some(75)
      [] text = "10" -> Some(100)
      [] OTHER -> None

\* truth value of an Optional[float]
Truthy(o) == o # None /\ TheVal(o) # 0

VehicleTypes ==
    {"car", "truck", "van", "motorcycle", "bicycle", "electric_car", "electric_truck"}

VehicleProfile(vt, fuel, h, w, l, kg) ==
    [vehicle_type |-> vt, fuel_type |-> fuel, height_meters |-> h, width_meters |-> w,
     length_meters |-> l, weight_kg |-> kg, avoid_highways |-> FALSE,
     avoid_tolls |-> FALSE, avoid_unpaved |-> FALSE, hazmat |-> FALSE]

create_car == VehicleProfile("car", "gasoline", Some(15), Some(18), Some(45), Some(1500))
create_truck == VehicleProfile("truck", "diesel", Some(40), Some(25), Some(120), Some(18000))
create_electric_car == VehicleProfile("electric_car", "electric", Some(15), Some(18), Some(45), Some(1800))
create_motorcycle == VehicleProfile("motorcycle", "gasoline", Some(12), Some(8), Some(20), Some(200))

\* the object "size and size > limit" evaluates to: None or 0 when size is
\* not declared or is zero, else the comparison's bool
SizeAbove(size, limit) ==
    IF size = None THEN "None"
    ELSE IF TheVal(size) = 0 THEN "0"
    ELSE IF TheVal(size) > limit THEN "True" ELSE "False"

\* the heavy-vehicle test with its weight comparison made inclusive
TruckRouteValue_Inclusive(vehicle) ==
    LET Or(a, b) == IF a = "True" THEN a ELSE b
        weight == IF vehicle.weight_kg # None /\ TheVal(vehicle.weight_kg) >= 7500
                  THEN "True" ELSE "False"
    IN Or(IF vehicle.vehicle_type \in {"truck", "electric_truck"}
          THEN "True" ELSE "False",
          Or(weight, Or(SizeAbove(vehicle.height_meters, 35),
                        SizeAbove(vehicle.length_meters, 100))))

\* the object the or-chain of requires_truck_route returns: its first true
\* operand, else its last operand
TruckRouteValue(vehicle) ==
    LET Or(a, b) == IF a = "True" THEN a ELSE b
    IN Or(IF vehicle.vehicle_type \in {"truck", "electric_truck"}
          THEN "True" ELSE "False",
          Or(SizeAbove(vehicle.weight_kg, 7500),
             Or(SizeAbove(vehicle.height_meters, 35),
                SizeAbove(vehicle.length_meters, 100))))

\* requires_truck_route, by the truth value its callers test
requires_truck_route(vehicle) == TruckRouteValue(vehicle) = "True"

RoadRestrictions ==
    [max_height_meters |-> None, max_width_meters |-> None,
     max_length_meters |-> None, max_weight_kg |-> None, no_trucks |-> FALSE,
     no_hazmat |-> FALSE, toll_road |-> FALSE, unpaved |-> FALSE]

Exceeds(limit, size) == Truthy(limit) /\ Truthy(size) /\ TheVal(size) > TheVal(limit)

allows_vehicle(r, vehicle) ==
    IF r.no_trucks /\ requires_truck_route(vehicle) THEN FALSE
    ELSE IF r.no_hazmat /\ vehicle.hazmat THEN FALSE
    ELSE IF Exceeds(r.max_height_meters, vehicle.height_meters) THEN FALSE
    ELSE IF Exceeds(r.max_width_meters, vehicle.width_meters) THEN FALSE
    ELSE IF Exceeds(r.max_length_meters, vehicle.length_meters) THEN FALSE
    ELSE IF Exceeds(r.max_weight_kg, vehicle.weight_kg) THEN FALSE
    ELSE IF r.toll_road /\ vehicle.avoid_tolls THEN FALSE
    ELSE IF r.unpaved /\ vehicle.avoid_unpaved THEN FALSE
    ELSE TRUE

\* a size tag: the parsed value, or no limit when the tag is absent or not a number
ParsedTag(tags, k) == IF k \in DOMAIN tags THEN ParseFloat(tags[k]) ELSE None

Tons(o) == IF o = None THEN None ELSE Some(TheVal(o) * 100)

UnpavedSurfaces == {"unpaved", "gravel", "dirt", "sand", "grass"}

ParseRestrictions(tags, edge_data) ==
    [max_height_meters |-> ParsedTag(tags, "maxheight"),
     max_width_meters |-> ParsedTag(tags, "maxwidth"),
     max_length_meters |-> ParsedTag(tags, "maxlength"),
     max_weight_kg |-> Tons(ParsedTag(tags, "maxweight")),
     no_trucks |-> Get(tags, "hgv", "") = "no" \/ Get(tags, "goods", "") = "no",
     no_hazmat |-> Get(tags, "hazmat", "") = "no",
     toll_road |-> Get(tags, "toll", "") = "yes" \/ Get(edge_data, "toll", FALSE),
     unpaved |-> Lower(Get(tags, "surface", "")) \in UnpavedSurfaces]

ROAD_TYPE_ACCESS ==
    [car |-> {"motorway", "trunk", "primary", "secondary", "tertiary",
              "residential", "service"},
     truck |-> {"motorway", "trunk", "primary", "secondary", "tertiary"},
     van |-> {"motorway", "trunk", "primary", "secondary", "tertiary", "residential"},
     motorcycle |-> {"motorway", "trunk", "primary", "secondary", "tertiary",
                     "residential", "service"},
     bicycle |-> {"cycleway", "path", "residential", "service", "tertiary"},
     electric_car |-> {"motorway", "trunk", "primary", "secondary", "tertiary",
                       "residential", "service"},
     electric_truck |-> {"motorway", "trunk", "primary", "secondary", "tertiary"}]

AllowedRoadTypes(vehicle) ==
    Get(ROAD_TYPE_ACCESS, vehicle.vehicle_type,
        {"primary", "secondary", "tertiary", "residential"})

Highways == {"motorway", "trunk"}

RoadType(data) == Lower(Get(data, "road_type", "unknown"))

\* the filter without its highway avoidance test
ShouldRemove_NoHighwayTest(data, vehicle) ==
    \/ RoadType(data) \notin AllowedRoadTypes(vehicle)
    \/ ~allows_vehicle(ParseRestrictions(Get(data, "tags", EmptyDict), data), vehicle)

\* should_remove after the three tests of the loop body
ShouldRemove(data, vehicle) ==
    LET road_type == RoadType(data)
        first == road_type \notin AllowedRoadTypes(vehicle)
        second == IF vehicle.avoid_highways /\ road_type \in Highways
                  THEN TRUE ELSE first
        tags == Get(data, "tags", EmptyDict)
        restrictions == ParseRestrictions(tags, data)
    IN IF ~allows_vehicle(restrictions, vehicle) THEN TRUE ELSE second

Restrict(fn, keys) == [k \in keys |-> fn[k]]

\* nx.isolates: nodes with no edge in or out
Isolates(nodes, edgeKeys) ==
    {n \in nodes : \A e \in edgeKeys : e[1] # n /\ e[2] # n}

FilterGraphByVehicle(graph, vehicle) ==
    LET edges_to_remove ==
            {e \in DOMAIN graph.edges : ShouldRemove(graph.edges[e], vehicle)}
        kept == DOMAIN graph.edges \ edges_to_remove
    IN [nodes |-> graph.nodes \ Isolates(graph.nodes, kept),
        edges |-> Restrict(graph.edges, kept)]

\* The graph objects a call works with, by name: "base" is the graph it was
\* given and "copy" the one graph.copy() made.  A step that writes to a graph
\* writes to the object its reference names.

\* a copy that is a view of the same object
GraphCopy_Alias(objects, ref) == [ref |-> ref, objects |-> objects]

\* nx.DiGraph.copy(): a new graph object with a new attribute dict per edge
GraphCopy(objects, ref) ==
    [ref |-> "copy", objects |-> ("copy" :> objects[ref]) @@ objects]

\* filter_graph_by_vehicle on the object ref: the edges and nodes are removed
\* from filtered_graph, which is returned
FilterGraphObject(objects, ref, vehicle) ==
    LET filtered_graph == GraphCopy(objects, ref)
    IN [ref |-> filtered_graph.ref,
        objects |-> [filtered_graph.objects EXCEPT
                        ![filtered_graph.ref] = FilterGraphByVehicle(@, vehicle)]]

\* tag dictionaries of an edge: no restriction, size limits that parse, one
\* that does not, a zero limit, and the access, toll and surface tags
TagDicts ==
    {EmptyDict,
     [maxheight |-> "3.5"], [maxheight |-> "abc"], [maxheight |-> "0"],
     [maxwidth |-> "2"], [maxlength |-> "10"], [maxweight |-> "7.5"],
     [hgv |-> "no"], [goods |-> "no"], [hazmat |-> "no"], [toll |-> "yes"],
     [surface |-> "Gravel"], [surface |-> "asphalt"]}

\* edge attribute dicts: with and without road_type, tags and toll
EdgeDicts ==
    {[road_type |-> rt, tags |-> tg] : rt \in {"motorway", "residential"},
                                       tg \in TagDicts}
        \cup {[road_type |-> rt] : rt \in {"Trunk", "cycleway"}}
        \cup {[road_type |-> "residential", toll |-> TRUE],
              [tags |-> [hgv |-> "no"]], EmptyDict}

Flagged(vehicle, flag) ==
    CASE flag = "avoid_highways" -> [vehicle EXCEPT !.avoid_highways = TRUE]
      [] flag = "avoid_tolls" -> [vehicle EXCEPT !.avoid_tolls = TRUE]
      [] flag = "avoid_unpaved" -> [vehicle EXCEPT !.avoid_unpaved = TRUE]
      [] flag = "hazmat" -> [vehicle EXCEPT !.hazmat = TRUE]
      [] OTHER -> vehicle

\* the presets, the default profile, a van above 7.5 t and the types without preset
BaseProfiles ==
    {create_car, create_truck, create_electric_car, create_motorcycle,
     VehicleProfile("car", "gasoline", None, None, None, None),
     VehicleProfile("van", "gasoline", Some(25), Some(20), Some(60), Some(8000)),
     VehicleProfile("bicycle", "gasoline", None, None, None, None),
     VehicleProfile("electric_truck", "electric", Some(0), None, None, None)}

\* vans at and one step above each threshold of requires_truck_route, and
\* one whose weight is declared as 0
ThresholdProfiles ==
    {VehicleProfile("van", "gasoline", None, None, None, Some(kg)) :
        kg \in {0, 7500, 7501}}
      \cup {VehicleProfile("van", "gasoline", Some(h), None, None, Some(7500)) :
               h \in {35, 36}}
      \cup {VehicleProfile("van", "gasoline", None, None, Some(l), None) :
               l \in {100, 101}}

Vehicles ==
    {Flagged(b, f) : b \in BaseProfiles,
                     f \in {"none", "avoid_highways", "avoid_tolls",
                            "avoid_unpaved", "hazmat"}}
        \cup ThresholdProfiles

\* edge i of the input graph joins node i to node i + 1
EdgeSlots == {<<i, i + 1>> : i \in 1..MaxEdges}

Graphs ==
    {[nodes |-> 1..(MaxEdges + 1), edges |-> es] :
        es \in UNION {[slots -> EdgeDicts] : slots \in SUBSET EdgeSlots}}

InitFilter ==
    /\ now = StartClock
    /\ tier \in {"starter"}
    /\ usage_records = <<>>
    /\ resp = NoResponse
    /\ reqCount = 0
    /\ faultCount = 0
    /\ usage_summary = None
    /\ limiterCall = NoLimiterCall
    /\ TBIdle
    /\ CacheIdle
    /\ fgraph \in Graphs
    /\ fvehicle \in Vehicles
    /\ filtered = None
    /\ OptIdle
    /\ KeysIdle
    /\ SearchIdle

ApplyFilter ==
    /\ filtered = None
    /\ LET f == FilterGraphObject("base" :> fgraph, "base", fvehicle)
       IN /\ filtered' = Some(f.objects[f.ref])
          /\ fgraph' = f.objects["base"]
    /\ UNCHANGED <<now, rlVars, tbVars, cacheVars, fvehicle, optVars, keyVars, searchVars>>

NextFilter == ApplyFilter

SpecFilter == InitFilter /\ [][NextFilter]_vars

----------------------------------------------------------------------------
(* Claims about the vehicle network filter *)

\* C10: the edges of filter_graph_by_vehicle(graph, vehicle) are exactly the
\* input edges whose road type is in the vehicle type's allowed set, is not
\* motorway or trunk when avoid_highways is set, and whose parsed restrictions
\* allow the vehicle; the edges keep their attributes.
C10_FilterExact ==
    filtered # None =>
        LET out == TheVal(filtered).edges
            Passes(e) ==
                LET data == fgraph.edges[e]
                IN /\ RoadType(data) \in AllowedRoadTypes(fvehicle)
                   /\ ~(fvehicle.avoid_highways /\ RoadType(data) \in Highways)
                   /\ allows_vehicle(
                          ParseRestrictions(Get(data, "tags", EmptyDict), data),
                          fvehicle)
        IN /\ DOMAIN out = {e \in DOMAIN fgraph.edges : Passes(e)}
           /\ \A e \in DOMAIN out : out[e] = fgraph.edges[e]

\* a car that avoids highways lost its motorway edge and kept the other one
C10_Witness ==
    /\ filtered # None
    /\ fvehicle.avoid_highways
    /\ fvehicle.vehicle_type = "car"
    /\ DOMAIN fgraph.edges = EdgeSlots
    /\ RoadType(fgraph.edges[<<1, 2>>]) = "motorway"
    /\ DOMAIN TheVal(filtered).edges = EdgeSlots \ {<<1, 2>>}

\* a declared limit that the declared size of the vehicle is above
LimitExceeded(limit, size) ==
    limit # None /\ size # None /\ TheVal(size) > TheVal(limit)

AnyLimitExceeded(r, vehicle) ==
    \/ LimitExceeded(r.max_height_meters, vehicle.height_meters)
    \/ LimitExceeded(r.max_width_meters, vehicle.width_meters)
    \/ LimitExceeded(r.max_length_meters, vehicle.length_meters)
    \/ LimitExceeded(r.max_weight_kg, vehicle.weight_kg)

\* the rules of allows_vehicle that are not size limits
OtherRuleForbids(r, vehicle) ==
    \/ r.no_trucks /\ requires_truck_route(vehicle)
    \/ r.no_hazmat /\ vehicle.hazmat
    \/ r.toll_road /\ vehicle.avoid_tolls
    \/ r.unpaved /\ vehicle.avoid_unpaved

\* C12: allows_vehicle returns false whenever a declared limit (height,
\* width, length or weight) is exceeded by the vehicle's declared attribute,
\* whatever the limit's value, a limit of 0 included; undeclared limits and
\* undeclared attributes never cause a false result.
C12_DeclaredLimits ==
    filtered # None =>
        \A e \in DOMAIN fgraph.edges :
            LET data == fgraph.edges[e]
                r == ParseRestrictions(Get(data, "tags", EmptyDict), data)
            IN /\ AnyLimitExceeded(r, fvehicle) => ~allows_vehicle(r, fvehicle)
               /\ (~AnyLimitExceeded(r, fvehicle) /\ ~OtherRuleForbids(r, fvehicle))
                     => allows_vehicle(r, fvehicle)

Declared(size) == IF size = None THEN 0 ELSE TheVal(size)

\* C13: requires_truck_route() is true if and only if the vehicle type is
\* truck or electric_truck, or weight_kg > 7500, or height_meters > 3.5, or
\* length_meters > 10; it is false at the exact boundary values and when the
\* dimensions are not declared, for a non-truck type.
C13_TruckRouteIff ==
    filtered # None =>
        (requires_truck_route(fvehicle) <=>
            \/ fvehicle.vehicle_type \in {"truck", "electric_truck"}
            \/ Declared(fvehicle.weight_kg) > 7500
            \/ Declared(fvehicle.height_meters) > 35
            \/ Declared(fvehicle.length_meters) > 100)

\* a van of exactly 7500 kg and 3.5 m kept a road closed to heavy goods vehicles
C13_Witness ==
    /\ filtered # None
    /\ fvehicle.vehicle_type = "van"
    /\ fvehicle.weight_kg = Some(7500)
    /\ fvehicle.height_meters = Some(35)
    /\ \E e \in DOMAIN TheVal(filtered).edges :
          Get(Get(fgraph.edges[e], "tags", EmptyDict), "hgv", "") = "no"

----------------------------------------------------------------------------
(* The graph optimisation engine: gnn/optimizer/engine.py, astar.py and    *)
(* lib/gnn/network/graph.py.  Lengths are in metres; a route's distance is *)
(* in hundredths of a km, its time in tenths of a minute, its cost in      *)
(* cents and its emissions in hundredths of a kg, the digits round() keeps.*)
(* Edge weights are in units of 1e-7, which the weight tables make exact.  *)

\* round(n / d) for n >= 0
RoundDiv(n, d) == (2 * n + d) \div (2 * d)

SetKey(dict, k, v) == [x \in DOMAIN dict \cup {k} |-> IF x = k THEN v ELSE dict[x]]

\* the criteria table of _add_optimization_weights, in tenths
CriteriaWeights(criteria) ==
    CASE criteria = "distance" -> [distance |-> 10, time |-> 0, cost |-> 0, emissions |-> 0]
      [] criteria = "time" -> [distance |-> 2, time |-> 8, cost |-> 0, emissions |-> 0]
      [] criteria = "cost" -> [distance |-> 2, time |-> 2, cost |-> 6, emissions |-> 0]
      [] criteria = "emissions" -> [distance |-> 2, time |-> 2, cost |-> 0, emissions |-> 6]
      [] OTHER -> [distance |-> 3, time |-> 4, cost |-> 2, emissions |-> 1]

\* road_type_penalty, in tenths
RoadTypePenalty(road_type) ==
    CASE road_type = "motorway" -> 10
      [] road_type = "trunk" -> 11
      [] road_type = "primary" -> 12
      [] road_type = "secondary" -> 13
      [] road_type = "tertiary" -> 14
      [] road_type = "residential" -> 15
      [] road_type = "service" -> 16
      [] OTHER -> 13

\* GraphUtils.calculate_edge_weight: km * w.distance + minutes * w.time
\* + km * 0.15 * w.cost + km * 0.12 * w.emissions, times the penalty
CalculateEdgeWeight(length_meters, speed_limit_kmh, road_type, w) ==
    (length_meters * 100 * w.distance
        + ((length_meters * 6000) \div speed_limit_kmh) * w.time
        + length_meters * 15 * w.cost
        + length_meters * 12 * w.emissions) * RoadTypePenalty(Lower(road_type))

AddWeightsToGraph(graph, w) ==
    LET Weighted(data) ==
            SetKey(data, "weight",
                   CalculateEdgeWeight(Get(data, "length", 1000),
                                       Get(data, "speed_limit", 50),
                                       Get(data, "road_type", "unknown"), w))
    IN [graph EXCEPT !.edges = [e \in DOMAIN graph.edges |-> Weighted(graph.edges[e])]]

\* the weight 1.0 that prioritize_truck_routes assumes for an unweighted edge
DefaultWeight == 10000000

PrioritizeTruckRoutes(graph, vehicle) ==
    LET Adjusted(data) ==
            IF RoadType(data) \in {"motorway", "trunk", "primary"}
            THEN SetKey(data, "weight", (Get(data, "weight", DefaultWeight) * 9) \div 10)
            ELSE SetKey(data, "weight", (Get(data, "weight", DefaultWeight) * 13) \div 10)
    IN IF ~requires_truck_route(vehicle) THEN graph
       ELSE [graph EXCEPT
                !.edges = [e \in DOMAIN graph.edges |-> Adjusted(graph.edges[e])]]

\* coordinates of the nodes, as those of the requests in units of 1e-7 degree
\* (latitude, longitude); nodes 5, 6 and 7 are kilometres apart on one meridian
NodeCoord(n) ==
    CASE n = 1 -> <<0, 0>>
      [] n = 2 -> <<100, 100>>
      [] n = 3 -> <<200, 0>>
      [] n = 5 -> <<0, 0>>
      [] n = 6 -> <<900000, 0>>
      [] n = 7 -> <<990000, 0>>
      [] OTHER -> <<300, 100>>

Dist2(a, b) == (a[1] - b[1]) * (a[1] - b[1]) + (a[2] - b[2]) * (a[2] - b[2])

\* RoadNetworkLoader.find_nearest_node: the first node at the least distance
FindNearestNode(coord, graph) ==
    LET nearest == {n \in graph.nodes :
                      \A m \in graph.nodes :
                          /\ Dist2(coord, NodeCoord(n)) <= Dist2(coord, NodeCoord(m))
                          /\ Dist2(coord, NodeCoord(n)) = Dist2(coord, NodeCoord(m))
                                => n <= m}
    IN IF graph.nodes = {} THEN None ELSE Some(CHOOSE n \in nearest : TRUE)

IsPath(graph, path, s, t) ==
    /\ path[1] = s
    /\ path[Len(path)] = t
    /\ \A i, j \in 1..Len(path) : i # j => path[i] # path[j]
    /\ \A i \in 1..(Len(path) - 1) : <<path[i], path[i + 1]>> \in DOMAIN graph.edges

Paths(graph, s, t) ==
    {path \in UNION {[1..n -> graph.nodes] : n \in 1..Cardinality(graph.nodes)} :
        IsPath(graph, path, s, t)}

\* the sum of cost over the edges of path from position i on
RECURSIVE PathSum(_, _, _)
PathSum(cost, path, i) ==
    IF i >= Len(path) THEN 0
    ELSE cost[<<path[i], path[i + 1]>>] + PathSum(cost, path, i + 1)

\* the attribute of every edge, with the default of data.get
EdgeAttr(graph, attr, default) ==
    [e \in DOMAIN graph.edges |-> Get(graph.edges[e], attr, default)]

\* the paths of least total weight attribute (1 for an edge without it)
ShortestPaths(graph, s, t, weight) ==
    LET cost == EdgeAttr(graph, weight, 1)
        all == Paths(graph, s, t)
    IN {path \in all : \A q \in all : PathSum(cost, path, 1) <= PathSum(cost, q, 1)}

\* the minutes of every edge times 3000, exact for the speed limits of the model
EdgeTimes(graph) ==
    [e \in DOMAIN graph.edges |->
        (Get(graph.edges[e], "length", 0) * 180)
            \div Get(graph.edges[e], "speed_limit", 50)]

\* AStarOptimizer._calculate_metrics
CalculateMetrics(graph, path) ==
    LET metres == PathSum(EdgeAttr(graph, "length", 0), path, 1)
    IN [distance_km |-> RoundDiv(metres, 10),
        time_minutes |-> RoundDiv(PathSum(EdgeTimes(graph), path, 1), 300),
        cost_usd |-> RoundDiv(metres * 15, 1000),
        emissions_kg |-> RoundDiv(metres * 12, 1000)]

RouteResult(path, metrics, algorithm) ==
    [path |-> path, distance_km |-> metrics.distance_km,
     time_minutes |-> metrics.time_minutes, cost_usd |-> metrics.cost_usd,
     emissions_kg |-> metrics.emissions_kg, algorithm_used |-> algorithm]

\* a search whose NetworkXNoPath is not caught
SearchOutcomes_NoExcept(graph, s, t, weight, algorithm) ==
    IF ShortestPaths(graph, s, t, weight) = {}
    THEN {[result |-> None, raised |-> TRUE]}
    ELSE {[result |-> Some(RouteResult(path, CalculateMetrics(graph, path), algorithm)),
           raised |-> FALSE] : path \in ShortestPaths(graph, s, t, weight)}

\* optimize_route of both optimizers: nx.astar_path or
\* nx.bidirectional_dijkstra raises NetworkXNoPath when there is no path, and
\* the except clause returns None.  raised tells that an exception left the call.
SearchOutcomes(graph, s, t, weight, algorithm) ==
    IF ShortestPaths(graph, s, t, weight) = {}
    THEN {[result |-> None, raised |-> FALSE]}
    ELSE {[result |-> Some(RouteResult(path, CalculateMetrics(graph, path), algorithm)),
           raised |-> FALSE] : path \in ShortestPaths(graph, s, t, weight)}

\* BidirectionalOptimizer.optimize_route, as _get_baseline_route calls it
BaselineRoutes(graph, s, t) ==
    SearchOutcomes(graph, s, t, "length", "bidirectional_dijkstra")

\* AStarOptimizer.optimize_route: a path of least weight, the nodes being so
\* close that the straight-line heuristic is below every edge weight
AStarRoutes(graph, s, t) == SearchOutcomes(graph, s, t, "weight", "astar")

RemoveEdge(graph, e) ==
    [graph EXCEPT !.edges = Restrict(graph.edges, DOMAIN graph.edges \ {e})]

\* the loop of find_alternative_routes from edge i of the primary path on
RECURSIVE AlternativesFrom(_, _, _, _, _, _)
AlternativesFrom(graph_copy, s, t, path, i, num_alternatives) ==
    IF i > num_alternatives \/ i > Len(path) - 1 THEN <<>>
    ELSE LET cut == RemoveEdge(graph_copy, <<path[i], path[i + 1]>>)
             found == AStarRoutes(cut, s, t)
             rest == AlternativesFrom(cut, s, t, path, i + 1, num_alternatives)
             alt == (CHOOSE r \in found : TRUE).result
         IN IF alt # None /\ TheVal(alt).path # path
            THEN <<TheVal(alt)>> \o rest ELSE rest

\* find_alternative_routes(...)[1:] for the primary route it finds again
FindAlternativeRoutes(graph, s, t, primary, num_alternatives) ==
    IF num_alternatives > 0
    THEN AlternativesFrom(graph, s, t, primary.path, 1, num_alternatives)
    ELSE <<>>

Improvements(d, t, c, e) ==
    [distance_saved_km |-> d, time_saved_minutes |-> t,
     cost_saved_usd |-> c, emissions_saved_kg |-> e]

\* RouteOptimizationEngine._calculate_improvements
CalculateImprovements(baseline, optimized) ==
    IF baseline = None THEN Improvements(0, 0, 0, 0)
    ELSE LET b == TheVal(baseline)
         IN Improvements(b.distance_km - optimized.distance_km,
                         b.time_minutes - optimized.time_minutes,
                         b.cost_usd - optimized.cost_usd,
                         b.emissions_kg - optimized.emissions_kg)

OptimizationRequest(origin, destination, vehicle, criteria) ==
    [origin |-> origin, destination |-> destination, vehicle_profile |-> vehicle,
     optimization_criteria |-> criteria, find_alternatives |-> TRUE,
     num_alternatives |-> 2]

\* RouteCache._generate_route_key: the digest of the four values, written out
GenerateRouteKey(origin, destination, vehicle_type, optimization) ==
    <<origin, destination, vehicle_type, optimization>>

RequestRouteKey(request) ==
    GenerateRouteKey(request.origin, request.destination,
                     request.vehicle_profile.vehicle_type,
                     request.optimization_criteria)

\* the steps of RouteOptimizationEngine.optimize after the searches, for one
\* baseline and primary route; None when there is no primary route
ComputeRoute(request, baseline, primary, graph, origin_node, dest_node) ==
    IF primary = None THEN None
    ELSE Some([primary_route |-> TheVal(primary),
               alternative_routes |->
                   IF request.find_alternatives
                   THEN FindAlternativeRoutes(graph, origin_node, dest_node,
                                              TheVal(primary),
                                              request.num_alternatives)
                   ELSE <<>>,
               baseline_route |-> baseline,
               improvements |-> CalculateImprovements(baseline, TheVal(primary)),
               metadata |-> [vehicle_type |-> request.vehicle_profile.vehicle_type,
                             optimization_criteria |->
                                 request.optimization_criteria],
               \* not a field of the response: the request it was computed for
               request |-> request])

\* the graph objects after optimize has filtered the loader's graph, then
\* prioritised truck roads and set the criterion weights in the filtered graph
GraphSteps(request) ==
    LET f == FilterGraphObject("base" :> roads, "base", request.vehicle_profile)
        prioritized == [f.objects EXCEPT
                           ![f.ref] = PrioritizeTruckRoutes(@, request.vehicle_profile)]
    IN [ref |-> f.ref,
        objects |-> [prioritized EXCEPT
                        ![f.ref] = AddWeightsToGraph(
                                       @, CriteriaWeights(request.optimization_criteria))]]

\* the graph the searches run on
PreparedGraph(request) == GraphSteps(request).objects[GraphSteps(request).ref]

\* how an optimize call ended: cause is "route", "no_nodes", "no_route" (the
\* search returned None) or "error" (the except clause of optimize), and
\* raised names the searches an exception came out of
EngineOutcome(response, cause, raised) ==
    [response |-> response, cause |-> cause, raised |-> raised]

\* optimize after both searches: _get_baseline_route swallows what the
\* baseline search raises, and what the primary search raises ends in the
\* except clause of optimize
AfterSearches(request, baseline, primary, graph, origin_node, dest_node) ==
    LET raised == (IF baseline.raised THEN {"bidirectional"} ELSE {})
                      \cup (IF primary.raised THEN {"astar"} ELSE {})
        response == ComputeRoute(request,
                                 IF baseline.raised THEN None ELSE baseline.result,
                                 primary.result, graph, origin_node, dest_node)
    IN IF primary.raised THEN EngineOutcome(None, "error", raised)
       ELSE IF response = None THEN EngineOutcome(None, "no_route", raised)
       ELSE EngineOutcome(response, "route", raised)

\* the ways RouteOptimizationEngine.optimize can end for a request after a
\* cache miss; fault is "load" when build_graph raises
EngineOutcomes(request, fault) ==
    LET graph == PreparedGraph(request)
        origin_node == FindNearestNode(request.origin, graph)
        dest_node == FindNearestNode(request.destination, graph)
    IN IF fault = "load" THEN {EngineOutcome(None, "error", {})}
       ELSE IF origin_node = None \/ dest_node = None
       THEN {EngineOutcome(None, "no_nodes", {})}
       ELSE {AfterSearches(request, baseline, primary, graph,
                           TheVal(origin_node), TheVal(dest_node)) :
               baseline \in BaselineRoutes(graph, TheVal(origin_node),
                                           TheVal(dest_node)),
               primary \in AStarRoutes(graph, TheVal(origin_node),
                                       TheVal(dest_node))}

\* handler.do_POST of api/v1/optimize-route/main.py after engine.optimize
\* returned result
DoPost(result) ==
    IF result = None
    THEN [status |-> 500, code |-> "OPTIMIZATION_ERROR",
          details |-> "No route found between origin and destination. Check if road network data exists in database."]
    ELSE [status |-> 200, code |-> "OK", details |-> ""]

----------------------------------------------------------------------------
(* EnhancedOptimizer: lib/gnn/optimizer/enhanced_optimizer.py *)

\* cost_per_km of _calculate_cost and emissions_per_km of
\* _calculate_emissions, in hundredths
PerKm(vehicle, electric, truck, other) ==
    IF vehicle.fuel_type = "electric" THEN electric
    ELSE IF vehicle.vehicle_type = "truck" THEN truck
    ELSE other

\* _transform_osrm_route_baseline: OSRM gives metres and seconds
TransformOsrmRouteBaseline(osrm_route, vehicle) ==
    LET metres == Get(osrm_route, "distance", 0)
    IN [path |-> <<>>,
        distance_km |-> RoundDiv(metres, 10),
        time_minutes |-> RoundDiv(Get(osrm_route, "duration", 0), 6),
        cost_usd |-> RoundDiv(metres * PerKm(vehicle, 5, 30, 15), 1000) + 200,
        emissions_kg |-> RoundDiv(metres * PerKm(vehicle, 1, 30, 12), 1000),
        algorithm_used |-> "baseline_osrm"]

\* distance_factor and time_factor of _create_synthetic_optimized_route,
\* in hundredths
SyntheticFactors(vehicle_type, criteria) ==
    CASE vehicle_type = "motorcycle" ->
            [distance |-> IF criteria = "distance" THEN 95 ELSE 102, time |-> 65]
      [] vehicle_type = "truck" ->
            [distance |-> IF criteria = "distance" THEN 92 ELSE 105, time |-> 88]
      [] vehicle_type = "van" ->
            [distance |-> IF criteria = "distance" THEN 88 ELSE 103, time |-> 80]
      [] OTHER ->
            CASE criteria = "distance" -> [distance |-> 82, time |-> 90]
              [] criteria = "time" -> [distance |-> 108, time |-> 75]
              [] criteria = "cost" -> [distance |-> 88, time |-> 85]
              [] OTHER -> [distance |-> 90, time |-> 88]

CreateSyntheticOptimizedRoute(baseline, criteria, vehicle) ==
    LET f == SyntheticFactors(vehicle.vehicle_type, criteria)
    IN [path |-> <<>>,
        distance_km |-> RoundDiv(baseline.distance_km * f.distance, 100),
        time_minutes |-> RoundDiv(baseline.time_minutes * f.time, 100),
        cost_usd |-> RoundDiv(baseline.cost_usd * (f.distance + f.time), 200),
        emissions_kg |-> RoundDiv(baseline.emissions_kg * f.distance, 100),
        algorithm_used |-> "intelligent_optimized"]

\* EnhancedOptimizer.optimize; osrm_route is None when the OSRM call fails
EnhancedResponse(vehicle, criteria, osrm_route) ==
    IF osrm_route = None THEN None
    ELSE LET baseline_route == TransformOsrmRouteBaseline(TheVal(osrm_route), vehicle)
             optimized_route ==
                 CreateSyntheticOptimizedRoute(baseline_route, criteria, vehicle)
         IN Some([primary_route |-> optimized_route,
                  alternative_routes |-> <<>>,
                  baseline_route |-> Some(baseline_route),
                  improvements |->
                      Improvements(
                          Max(0, baseline_route.distance_km - optimized_route.distance_km),
                          Max(0, baseline_route.time_minutes - optimized_route.time_minutes),
                          Max(0, baseline_route.cost_usd - optimized_route.cost_usd),
                          Max(0, baseline_route.emissions_kg - optimized_route.emissions_kg)),
                  metadata |-> [vehicle_type |-> vehicle.vehicle_type,
                                optimization_criteria |-> criteria]])

----------------------------------------------------------------------------
(* The optimize operations as a state machine *)

Criteria == {"time", "distance", "balanced"}

RoadLengths == {1000 * k : k \in 1..MaxRoadKm}

RoadAttrs(lengths) ==
    {[road_type |-> rt, length |-> len, speed_limit |-> sp] :
        rt \in {"motorway", "residential"}, len \in lengths, sp \in {30, 100}}

\* a road from node 1 to node 2 and one from node 4 to node 3, not joined
SplitGraphs ==
    {[nodes |-> {1, 2, 3, 4},
      edges |-> (<<1, 2>> :> first) @@ (<<4, 3>> :> second)] :
        first \in RoadAttrs({1000}),
        second \in {[road_type |-> "primary", length |-> 1000, speed_limit |-> 50]}}

\* a direct road from node 1 to node 3 and a detour over node 2, and the
\* graphs of two separate roads
RoadGraphs ==
    {[nodes |-> {1, 2, 3},
      edges |-> (<<1, 3>> :> direct) @@ (<<1, 2>> :> first) @@ (<<2, 3>> :> second)] :
        direct \in RoadAttrs(RoadLengths), first \in RoadAttrs({1000}),
        second \in {[road_type |-> "primary", length |-> 1000, speed_limit |-> 50]}}
      \cup SplitGraphs

EngineRequests ==
    {OptimizationRequest(<<10, 0>>, <<190, 0>>, v, c) :
        v \in {create_car, create_truck}, c \in Criteria}

OsrmRoutes == {None, Some([distance |-> 12340, duration |-> 905])}

InitOpt ==
    /\ now = StartClock
    /\ tier \in {"starter"}
    /\ usage_records = <<>>
    /\ resp = NoResponse
    /\ reqCount = 0
    /\ faultCount = 0
    /\ usage_summary = None
    /\ limiterCall = NoLimiterCall
    /\ TBIdle
    /\ CacheIdle
    /\ FilterIdle
    /\ roads \in RoadGraphs
    /\ optOut = NoOptimize
    /\ KeysIdle
    /\ SearchIdle

Optimized(engine, request, response, cached) ==
    [engine |-> engine, request |-> Some(request), response |-> response,
     cached |-> cached, cause |-> "none", raised |-> {}, fault |-> "none"]

\* optimize calls are counted in reqCount, up to MaxCalls of them
CountCall ==
    /\ reqCount < MaxCalls
    /\ reqCount' = reqCount + 1
    /\ UNCHANGED <<tier, usage_records, resp, faultCount, usage_summary, limiterCall>>

\* RouteOptimizationEngine.optimize of the graph engine
EngineOptimize(request, fault) ==
    LET key == RequestRouteKey(request)
        got == RouteGet(rcache, key, now)
    IN \/ /\ CountCall
          /\ got.value # None
          /\ rcache' = got.cache
          /\ rUsed' = Used(rUsed, CachedKeys(got.cache), key, TRUE)
          /\ fault = "none"
          /\ optOut' = Optimized("graph", request, got.value, TRUE)
          /\ UNCHANGED <<now, tbVars, gcache, gsize, cacheOut, gUsed,
                         filterVars, roads, keyVars, searchVars>>
       \/ /\ CountCall
          /\ got.value = None
          /\ \E outcome \in EngineOutcomes(request, fault) :
                LET response == outcome.response
                IN /\ rcache' = IF response = None THEN got.cache
                                ELSE RouteSet(got.cache, key, TheVal(response), now)
                   /\ rUsed' = IF response = None
                               THEN Used(rUsed, CachedKeys(got.cache), key, FALSE)
                               ELSE Used(rUsed, CachedKeys(RouteSet(got.cache, key,
                                             TheVal(response), now)), key, TRUE)
                   /\ optOut' = [Optimized("graph", request, response, FALSE)
                                    EXCEPT !.cause = outcome.cause,
                                           !.raised = outcome.raised,
                                           !.fault = fault]
          /\ roads' = IF fault = "load" THEN roads
                      ELSE GraphSteps(request).objects["base"]
          /\ UNCHANGED <<now, tbVars, gcache, gsize, cacheOut, gUsed,
                         filterVars, keyVars, searchVars>>

EnhancedOptimize(vehicle, criteria, osrm_route) ==
    /\ optOut' = Optimized("enhanced",
                           OptimizationRequest(<<10, 0>>, <<190, 0>>, vehicle, criteria),
                           EnhancedResponse(vehicle, criteria, osrm_route), FALSE)
    /\ CountCall
    /\ UNCHANGED <<now, tbVars, cacheVars, filterVars, roads, keyVars, searchVars>>

\* up to MaxOptCalls optimize calls on one road graph
NextOpt ==
    \/ \E request \in EngineRequests, fault \in {"none", "load"} :
          reqCount < MaxOptCalls /\ EngineOptimize(request, fault)
    \/ \E vehicle \in {create_electric_car, create_truck},
          criteria \in Criteria, osrm_route \in OsrmRoutes :
            reqCount < MaxOptCalls /\ EnhancedOptimize(vehicle, criteria, osrm_route)

SpecOpt == InitOpt /\ [][NextOpt]_vars

----------------------------------------------------------------------------
(* Claims about the optimisation responses *)

C11_BaseGraphUnchanged ==
    [][/\ roads' = roads
       /\ \A vehicle \in {request.vehicle_profile : request \in EngineRequests} :
              FilterGraphObject("base" :> roads, "base",
                                vehicle).objects["base"] = roads]_vars

\* a truck's route was computed on a graph that lost a residential road and
\* got weights, and the base graph still has that road and no weight
C11_Witness ==
    /\ optOut.engine = "graph"
    /\ ~optOut.cached
    /\ optOut.response # None
    /\ requires_truck_route(TheVal(optOut.request).vehicle_profile)
    /\ \E e \in DOMAIN roads.edges :
          /\ RoadType(roads.edges[e]) = "residential"
          /\ e \notin DOMAIN PreparedGraph(TheVal(optOut.request)).edges
    /\ \A e \in DOMAIN roads.edges : "weight" \notin DOMAIN roads.edges[e]
    /\ \E e \in DOMAIN PreparedGraph(TheVal(optOut.request)).edges :
          "weight" \in DOMAIN PreparedGraph(TheVal(optOut.request)).edges[e]

\* C14: the outcome of an optimize request tells "no route exists" from
\* "system error": a request whose endpoints are not connected and a request
\* that fails with an internal exception get different results from
\* RouteOptimizationEngine.optimize and different error responses from the
\* HTTP handler.
C14_NoRouteVsError ==
    (optOut.engine = "graph" /\ optOut.cause = "error") =>
        \A request \in EngineRequests :
            \A o \in EngineOutcomes(request, "none") :
                o.cause = "no_route" =>
                    /\ optOut.response # o.response
                    /\ DoPost(optOut.response) # DoPost(o.response)

\* the graph with every road usable in both directions
Undirected(graph) ==
    [graph EXCEPT !.edges =
        [e \in DOMAIN graph.edges \cup {<<x[2], x[1]>> : x \in DOMAIN graph.edges}
            |-> 0]]

\* the request's endpoints resolve to nodes of the prepared graph that lie in
\* disjoint connected components
Disconnected(request) ==
    LET graph == PreparedGraph(request)
        origin_node == FindNearestNode(request.origin, graph)
        dest_node == FindNearestNode(request.destination, graph)
    IN /\ origin_node # None
       /\ dest_node # None
       /\ Paths(Undirected(graph), TheVal(origin_node), TheVal(dest_node)) = {}

\* C15: when the origin and the destination resolve to nodes in disjoint
\* connected components of the filtered graph, optimize returns None by its
\* no-route branch: no exception comes out of the A* search, of the baseline
\* search or of optimize, and nothing is written to the route cache.
C15_NoRouteIsNone ==
    (/\ optOut.engine = "graph"
     /\ ~optOut.cached
     /\ optOut.fault = "none"
     /\ Disconnected(TheVal(optOut.request))) =>
        /\ optOut.response = None
        /\ optOut.cause = "no_route"
        /\ optOut.raised = {}
        /\ RequestRouteKey(TheVal(optOut.request)) \notin CachedKeys(rcache)

\* a car was asked from one of two separate roads to the other, after
\* another request had been answered and cached
C15_Witness ==
    /\ optOut.engine = "graph"
    /\ optOut.fault = "none"
    /\ roads \in SplitGraphs
    /\ TheVal(optOut.request).vehicle_profile.vehicle_type = "car"
    /\ Disconnected(TheVal(optOut.request))
    /\ optOut.cause = "no_route"
    /\ rcache # <<>>

\* the weight calculate_edge_weight gives an edge under the request's criterion
CriterionWeight(data, criteria) ==
    CalculateEdgeWeight(Get(data, "length", 1000), Get(data, "speed_limit", 50),
                        Get(data, "road_type", "unknown"), CriteriaWeights(criteria))

\* C19: in optimize, for a vehicle whose requires_truck_route() is true, the
\* truck multipliers are applied after the criterion weights: the weight the
\* path search uses for each edge is the edge's criterion weight times 0.9 for
\* motorway, trunk and primary roads and times 1.3 for every other road type.
C19_TruckMultipliersAfterWeights ==
    (/\ optOut.engine = "graph"
     /\ ~optOut.cached
     /\ optOut.fault = "none"
     /\ requires_truck_route(TheVal(optOut.request).vehicle_profile)) =>
        LET request == TheVal(optOut.request)
            graph == PreparedGraph(request)
        IN \A e \in DOMAIN graph.edges :
               LET data == graph.edges[e]
                   criterion == CriterionWeight(data, request.optimization_criteria)
               IN Get(data, "weight", DefaultWeight) =
                      IF RoadType(data) \in {"motorway", "trunk", "primary"}
                      THEN (criterion * 9) \div 10
                      ELSE (criterion * 13) \div 10

----------------------------------------------------------------------------
(* Route caching by request: the OSRM engine of lib/gnn/optimizer/engine.py,*)
(* RouteOptimizer of lib/optimizer.py with table route_cache, and the graph *)
(* engine with RouteCache.  Coordinates are in units of 1e-7 degree.        *)

EngineTtl == EngineTtlSeconds * TicksPerSecond

DbCacheTtl == DbCacheMinutes * 60 * TicksPerSecond

\* f"{x:.6f}" for x >= 0: the value in units of 1e-6 degree
Format6(x) == RoundDiv(x, 10)

FormatCoord(coord) == <<Format6(coord[1]), Format6(coord[2])>>

\* RouteOptimizationEngine._get_cache_key of the OSRM engine
GetCacheKey(request) ==
    <<request.origin, request.destination, request.vehicle_profile.vehicle_type>>

\* RouteTransformer.transform_route: the criterion plays no part
TransformRoute(request) ==
    [primary_route |-> [path |-> <<>>, algorithm_used |-> "osrm"],
     alternative_routes |-> <<>>,
     baseline_route |-> None,
     improvements |-> Improvements(0, 0, 0, 0),
     metadata |-> [vehicle_type |-> request.vehicle_profile.vehicle_type,
                   optimization_criteria |-> "time"],
     \* not a field of the response: the request it was computed for
     request |-> request]

\* self.cache[cache_key] = (response, time.time())
StoreResult(cache, key, response, t) ==
    LET entry == [key |-> key, value |-> response, timestamp |-> t]
    IN IF HasKey(cache, key)
       THEN [i \in 1..Len(cache) |-> IF cache[i].key = key THEN entry ELSE cache[i]]
       ELSE Append(cache, entry)

\* del of the first n entries of the cache sorted by cached time
RECURSIVE RemoveOldest(_, _)
RemoveOldest(cache, n) ==
    IF n = 0 \/ cache = <<>> THEN cache
    ELSE LET oldest == CHOOSE i \in 1..Len(cache) :
                          \A j \in 1..Len(cache) :
                              /\ cache[i].timestamp <= cache[j].timestamp
                              /\ cache[i].timestamp = cache[j].timestamp => i <= j
         IN RemoveOldest(Without(cache, cache[oldest].key), n - 1)

\* the cache left to grow
LimitCacheSize_Never(cache) == cache

LimitCacheSize(cache) ==
    IF Len(cache) > EngineCacheMax THEN RemoveOldest(cache, EngineCacheEvict)
    ELSE cache

\* RouteOptimizer._generate_cache_key: the digests, written out
GenerateCacheKey(request, constraints) ==
    LET constraints_str ==
            IF constraints = None THEN <<>>
            ELSE <<TheVal(constraints).avoid_traffic, TheVal(constraints).avoid_tolls>>
    IN [origin_hash |-> <<FormatCoord(request.origin), constraints_str>>,
        destination_hash |-> <<FormatCoord(request.destination), constraints_str>>]

RowKey(cache_key, request) ==
    <<cache_key.origin_hash, cache_key.destination_hash,
      request.vehicle_profile.vehicle_type, request.optimization_criteria>>

\* DatabaseManager.get_cached_route: the row of the key that has not expired
DbGetCachedRoute(rows, key, t) ==
    IF \E r \in rows : r.key = key /\ r.expires_at > t
    THEN Some((CHOOSE r \in rows : r.key = key /\ r.expires_at > t).route_data)
    ELSE None

\* DatabaseManager.cache_route: INSERT ... ON CONFLICT DO UPDATE
DbCacheRoute(rows, key, route_data, t) ==
    {r \in rows : r.key # key}
        \cup {[key |-> key, route_data |-> route_data, expires_at |-> t + DbCacheTtl]}

\* requests that differ in one key component each, two of them only in the
\* seventh decimal digit of the origin
KeyRequests ==
    {OptimizationRequest(<<10, 0>>, <<190, 0>>, create_car, "time"),
     OptimizationRequest(<<10, 0>>, <<190, 0>>, create_car, "distance"),
     OptimizationRequest(<<14, 0>>, <<190, 0>>, create_car, "time"),
     OptimizationRequest(<<10, 0>>, <<190, 0>>, create_truck, "time")}

KeyInstants == {StartClock, StartClock + RouteTtl + 1, StartClock + EngineTtl}

\* a motorway from node 1 to node 3 and a shorter detour over node 2
KeyRoads ==
    [nodes |-> {1, 2, 3},
     edges |-> (<<1, 3>> :> [road_type |-> "motorway", length |-> 3000,
                             speed_limit |-> 100])
               @@ (<<1, 2>> :> [road_type |-> "residential", length |-> 1000,
                                speed_limit |-> 30])
               @@ (<<2, 3>> :> [road_type |-> "primary", length |-> 1000,
                                speed_limit |-> 50])]

InitKeys ==
    /\ now = StartClock
    /\ tier \in {"starter"}
    /\ usage_records = <<>>
    /\ resp = NoResponse
    /\ reqCount = 0
    /\ faultCount = 0
    /\ usage_summary = None
    /\ limiterCall = NoLimiterCall
    /\ TBIdle
    /\ CacheIdle
    /\ FilterIdle
    /\ roads = KeyRoads
    /\ optOut = NoOptimize
    /\ KeysIdle
    /\ SearchIdle

\* RouteOptimizationEngine.optimize of the OSRM engine
OsrmOptimize(request, osrm_ok) ==
    LET cache_key == GetCacheKey(request)
        fresh == /\ HasKey(engineCache, cache_key)
                 /\ now - Entry(engineCache, cache_key).timestamp < EngineTtl
        response == TransformRoute(request)
    IN /\ IF fresh
          THEN /\ optOut' = Optimized("osrm", request,
                                      Some(Entry(engineCache, cache_key).value), TRUE)
               /\ UNCHANGED engineCache
          ELSE IF ~osrm_ok
          THEN /\ optOut' = Optimized("osrm", request, None, FALSE)
               /\ UNCHANGED engineCache
          ELSE /\ optOut' = Optimized("osrm", request, Some(response), FALSE)
               /\ engineCache' =
                      LimitCacheSize(StoreResult(engineCache, cache_key, response, now))
       /\ CountCall
       /\ UNCHANGED <<now, tbVars, cacheVars, filterVars, roads, route_cache,
                      searchVars>>

\* RouteOptimizer.optimize; outcome tells how the computation after a miss ends
RouteOptimize(request, constraints, outcome) ==
    LET key == RowKey(GenerateCacheKey(request, constraints), request)
        cached_route == DbGetCachedRoute(route_cache, key, now)
        optimized_route == [algorithm |-> "optimized", request |-> request]
        direct_route == [algorithm |-> "direct", request |-> request]
    IN /\ IF cached_route # None
          THEN /\ optOut' = Optimized("optimizer", request, cached_route, TRUE)
               /\ UNCHANGED route_cache
          ELSE IF outcome # "route"
          THEN /\ optOut' = Optimized("optimizer", request, Some(direct_route), FALSE)
               /\ UNCHANGED route_cache
          ELSE /\ optOut' = Optimized("optimizer", request, Some(optimized_route), FALSE)
               /\ route_cache' = DbCacheRoute(route_cache, key, optimized_route, now)
       /\ CountCall
       /\ UNCHANGED <<now, tbVars, cacheVars, filterVars, roads, engineCache,
                      searchVars>>

AdvanceKeys ==
    /\ \E t \in KeyInstants : t > now /\ now' = t
    /\ UNCHANGED <<rlVars, tbVars, cacheVars, routeVars>>

NextKeys ==
    \/ \E request \in KeyRequests : EngineOptimize(request, "none")
    \/ \E request \in KeyRequests, osrm_ok \in BOOLEAN : OsrmOptimize(request, osrm_ok)
    \/ \E request \in KeyRequests,
          constraints \in {None, Some([avoid_traffic |-> TRUE, avoid_tolls |-> FALSE])},
          outcome \in {"route", "no_segments", "error"} :
            RouteOptimize(request, constraints, outcome)
    \/ AdvanceKeys

SpecKeys == InitKeys /\ [][NextKeys]_vars

----------------------------------------------------------------------------
(* Claims about route caching *)

SameRequest(a, b) ==
    /\ FormatCoord(a.origin) = FormatCoord(b.origin)
    /\ FormatCoord(a.destination) = FormatCoord(b.destination)
    /\ a.vehicle_profile.vehicle_type = b.vehicle_profile.vehicle_type
    /\ a.optimization_criteria = b.optimization_criteria

\* C8: a response served from a route cache was stored for a request with the
\* same origin and destination (at 6 decimal digits), vehicle type and
\* optimization criterion as the request it answers.
C8_CacheKeyed ==
    (optOut.cached /\ optOut.response # None) =>
        SameRequest(TheVal(optOut.request), TheVal(optOut.response).request)

----------------------------------------------------------------------------
(* One AStarOptimizer at work: optimize_route as the steps of a search and  *)
(* find_alternative_routes, gnn/optimizer/astar.py                          *)

MaxExecutionTime == MaxExecutionSeconds * TicksPerSecond

\* the graphs handed to the optimizer: the road graphs with criterion weights
SearchGraphs ==
    {AddWeightsToGraph(g, CriteriaWeights(c)) : g \in RoadGraphs, c \in Criteria}

InitSearch ==
    /\ now = StartClock
    /\ tier \in {"starter"}
    /\ usage_records = <<>>
    /\ resp = NoResponse
    /\ reqCount = 0
    /\ faultCount = 0
    /\ usage_summary = None
    /\ limiterCall = NoLimiterCall
    /\ TBIdle
    /\ CacheIdle
    /\ FilterIdle
    /\ OptIdle
    /\ KeysIdle
    /\ \E g \in SearchGraphs :
          search = [NoSearch EXCEPT !.state = "INITIALIZED", !.graph = g]

\* optimize_route up to the call of nx.astar_path: start_time = time.time()
SearchBegin(origin_node, destination_node) ==
    /\ search.state = "INITIALIZED"
    /\ search' = [search EXCEPT !.state = "SEARCHING", !.origin = origin_node,
                                !.destination = destination_node,
                                !.start_time = now, !.end_time = now]
    /\ UNCHANGED <<now, rlVars, tbVars, cacheVars, filterVars, optVars, keyVars>>

\* time passes while nx.astar_path runs
SearchTick ==
    /\ search.state = "SEARCHING"
    /\ \E t \in {search.start_time + MaxExecutionTime,
                search.start_time + MaxExecutionTime + 1} :
          t > now /\ now' = t
    /\ UNCHANGED <<rlVars, tbVars, cacheVars, routeVars>>

\* nx.astar_path returns or raises and optimize_route returns: the result is
\* a RouteResult or None, whatever time.time() is by then
SearchEnd ==
    /\ search.state = "SEARCHING"
    /\ \E o \in AStarRoutes(search.graph, search.origin, search.destination) :
          search' = [search EXCEPT
                        !.state = IF o.result = None THEN "NO_PATH" ELSE "FOUND",
                        !.result = o.result,
                        !.end_time = now]
    /\ UNCHANGED <<now, rlVars, tbVars, cacheVars, filterVars, optVars, keyVars>>

\* find_alternative_routes: the primary route, then the alternatives found
\* with the first edges of the primary path removed one after the other
AlternativeRoutes(graph, origin_node, destination_node, num_alternatives) ==
    {IF primary.result = None THEN <<>>
     ELSE <<TheVal(primary.result)>>
              \o FindAlternativeRoutes(graph, origin_node, destination_node,
                                       TheVal(primary.result), num_alternatives) :
        primary \in AStarRoutes(graph, origin_node, destination_node)}

FindAlternatives(origin_node, destination_node, num_alternatives) ==
    /\ search.state = "INITIALIZED"
    /\ \E routes \in AlternativeRoutes(search.graph, origin_node, destination_node,
                                      num_alternatives) :
          search' = [search EXCEPT !.state = "ROUTES", !.origin = origin_node,
                                   !.destination = destination_node,
                                   !.routes = routes,
                                   !.num_alternatives = num_alternatives]
    /\ UNCHANGED <<now, rlVars, tbVars, cacheVars, filterVars, optVars, keyVars>>

NextSearch ==
    \/ \E origin_node, destination_node \in {1, 3} :
          SearchBegin(origin_node, destination_node)
    \/ SearchTick
    \/ SearchEnd
    \/ \E origin_node, destination_node \in {1, 3}, num_alternatives \in 0..2 :
          FindAlternatives(origin_node, destination_node, num_alternatives)

SpecSearch == InitSearch /\ [][NextSearch]_vars

----------------------------------------------------------------------------
(* Claims about the searches *)

\* C16: every shortest-path search ends in exactly one of FOUND, NO_PATH or
\* TIMED_OUT, and a search that has not produced a result when its deadline
\* (max_execution_time_seconds) passes ends in TIMED_OUT and returns no path.
C16_DeadlineIsTimeout ==
    /\ search.state \in {"INITIALIZED", "SEARCHING", "ROUTES",
                         "FOUND", "NO_PATH", "TIMED_OUT"}
    /\ (/\ search.state \in {"FOUND", "NO_PATH", "TIMED_OUT"}
        /\ search.end_time - search.start_time > MaxExecutionTime) =>
            /\ search.state = "TIMED_OUT"
            /\ search.result = None

----------------------------------------------------------------------------
(* Route scoring of EnhancedOptimizer: _calculate_route_score and          *)
(* _select_best_route.  A factor is in tenths and a score in units of 1e-5. *)

\* _calculate_cost in cents and _calculate_emissions in hundredths of a kg,
\* for a whole number of km
CalculateCost(distance_km, vehicle) == distance_km * PerKm(vehicle, 5, 30, 15) + 200

CalculateEmissions(distance_km, vehicle) == distance_km * PerKm(vehicle, 1, 30, 12)

\* _calculate_route_score, time_of_day_multiplier being 1.0
CalculateRouteScore(route, vehicle, criteria, factor) ==
    LET distance_km == route.distance \div 1000
        time_minutes == route.duration \div 60
        cost == CalculateCost(distance_km, vehicle)
        emissions == CalculateEmissions(distance_km, vehicle)
    IN CASE criteria = "distance" ->
                distance_km * 100000 + time_minutes * 8 * factor * 100 + cost * 20
         [] criteria = "time" ->
                time_minutes * 100 * factor * 100 + distance_km * 5000 + cost * 20
         [] criteria = "cost" ->
                cost * 1000 + time_minutes * 20 * factor * 100 + distance_km * 2000
         [] criteria = "emissions" ->
                emissions * 1000 + time_minutes * 10 * factor * 100 + distance_km * 2000
         [] OTHER ->
                distance_km * 30000 + time_minutes * 50 * factor * 100 + cost * 200

\* _select_best_route for two routes or more: the first route of least score
SelectBestRoute(routes, vehicle, criteria, factor) ==
    LET Score(i) == CalculateRouteScore(routes[i], vehicle, criteria, factor)
        best == CHOOSE i \in 1..Len(routes) :
                    \A j \in 1..Len(routes) :
                        /\ Score(i) <= Score(j)
                        /\ Score(i) = Score(j) => i <= j
    IN routes[best]

\* OSRM routes: metres and seconds
CandidateRoutes ==
    {[distance |-> d, duration |-> t] : d \in {5000, 20000}, t \in {600, 720}}

Factors == {1, 5, 10, 20}

InitScore ==
    /\ now = StartClock
    /\ tier \in {"starter"}
    /\ usage_records = <<>>
    /\ resp = NoResponse
    /\ reqCount = 0
    /\ faultCount = 0
    /\ usage_summary = None
    /\ limiterCall = NoLimiterCall
    /\ TBIdle
    /\ CacheIdle
    /\ RouteIdle

SelectBest(routes, vehicle, criteria, factor) ==
    /\ optOut' = Optimized("select",
                           [routes |-> routes, vehicle_profile |-> vehicle,
                            optimization_criteria |-> criteria, factor |-> factor],
                           Some(SelectBestRoute(routes, vehicle, criteria, factor)),
                           FALSE)
    /\ UNCHANGED <<now, rlVars, tbVars, cacheVars, filterVars, roads, keyVars,
                   searchVars>>

NextScore ==
    \E first, second \in CandidateRoutes, vehicle \in {create_car, create_truck},
       criteria \in Criteria \cup {"cost", "emissions"}, factor \in Factors :
        SelectBest(<<first, second>>, vehicle, criteria, factor)

SpecScore == InitScore /\ [][NextScore]_vars

\* C17: in route scoring a factor below 1 strengthens the preference for low
\* travel time and a factor above 1 weakens it: for the same candidate routes
\* and criterion, the route selected with a smaller factor never has a longer
\* travel time than the route selected with a larger factor.
C17_SmallerFactorFaster ==
    [][(/\ optOut.engine = "select"
        /\ optOut'.engine = "select"
        /\ TheVal(optOut'.request).routes = TheVal(optOut.request).routes
        /\ TheVal(optOut'.request).vehicle_profile
              = TheVal(optOut.request).vehicle_profile
        /\ TheVal(optOut'.request).optimization_criteria
              = TheVal(optOut.request).optimization_criteria
        /\ TheVal(optOut'.request).factor < TheVal(optOut.request).factor)
       => TheVal(optOut'.response).duration <= TheVal(optOut.response).duration]_vars

----------------------------------------------------------------------------
(* Usage analytics: GET /usage of main.py and RateLimiter.get_usage_summary *)

TicksPerHour == 3600 * TicksPerSecond

\* DATE_TRUNC('hour', created_at)
HourBucket(t) == t \div TicksPerHour

\* the hours parameter of GET /usage: the last hour, or the default day
PeriodHours == {1, 24}

\* WHERE api_key_id = %s AND created_at > to_timestamp(window_start)
InWindow(rows, t, hours) ==
    {i \in 1..Len(rows) : rows[i].created_at > t - hours * TicksPerHour}

\* the rows the query returns, one per (endpoint, hour) group
QueryResults(rows, t, hours) ==
    LET selected == InWindow(rows, t, hours)
        GroupOf(i) == <<rows[i].endpoint, HourBucket(rows[i].created_at)>>
    IN [g \in {GroupOf(i) : i \in selected} |->
           LET members == {i \in selected : GroupOf(i) = g}
           IN [endpoint |-> g[1],
               hour_bucket |-> g[2],
               total_requests |-> Cardinality(members),
               successful_requests |->
                   Cardinality({i \in members : rows[i].success}),
               failed_requests |->
                   Cardinality({i \in members : ~rows[i].success})]]

\* sum(r[field] for r in results) over the result rows of the groups
RECURSIVE SumOf(_, _, _)
SumOf(results, groups, field) ==
    IF groups = {} THEN 0
    ELSE LET g == CHOOSE x \in groups : TRUE
         IN results[g][field] + SumOf(results, groups \ {g}, field)

\* the counts that the loop adds up for the result rows of the groups
Stats(results, groups) ==
    [requests |-> SumOf(results, groups, "total_requests"),
     successful |-> SumOf(results, groups, "successful_requests"),
     failed |-> SumOf(results, groups, "failed_requests")]

\* RateLimiter.get_usage_summary: 'summary', 'endpoint_breakdown' and
\* 'hourly_breakdown' of the returned dict
GetUsageSummary(rows, t, hours) ==
    LET results == QueryResults(rows, t, hours)
        groups == DOMAIN results
    IN [total_requests |-> SumOf(results, groups, "total_requests"),
        successful_requests |-> SumOf(results, groups, "successful_requests"),
        failed_requests |-> SumOf(results, groups, "failed_requests"),
        period_hours |-> hours,
        endpoint_breakdown |->
            [endpoint \in {g[1] : g \in groups} |->
                Stats(results, {g \in groups : g[1] = endpoint})],
        hourly_breakdown |->
            [hour \in {g[2] : g \in groups} |->
                Stats(results, {g \in groups : g[2] = hour})],
        \* not fields of the dict: the table the query read, and when
        rows |-> rows,
        at |-> t]

InitUsage == InitRL

\* POST /optimize, answered or failed in the optimizer, and recorded
RecordedRequest ==
    /\ reqCount < MaxCalls
    /\ \E fault \in {"none", "optimize"} :
          LET h == HandleRequest(usage_records, now, tier, fault)
          IN /\ usage_records' = h.rows
             /\ resp' = [h.resp EXCEPT !.fault = fault]
    /\ reqCount' = reqCount + 1
    /\ UNCHANGED <<now, tier, faultCount, usage_summary, limiterCall, tbVars, cacheVars,
                   routeVars>>

\* GET /usage: get_api_key, then get_usage_summary, which runs its query and
\* then asks check_rate_limit for the current limits
GetUsageAnalytics(hours) ==
    /\ reqCount < MaxCalls
    /\ LET g == GetApiKey(usage_records, now, tier, "none")
       IN /\ resp' = g.resp
          /\ IF g.pass
             THEN /\ usage_summary' = Some(GetUsageSummary(g.rows, now, hours))
                  /\ usage_records' =
                         CheckRateLimit(g.rows, now, tier, "default", "none").rows
             ELSE /\ usage_records' = g.rows
                  /\ UNCHANGED usage_summary
    /\ reqCount' = reqCount + 1
    /\ UNCHANGED <<now, tier, faultCount, limiterCall, tbVars, cacheVars, routeVars>>

\* rate_limiter.get_usage_summary(key_id, billing_tier, hours) called on its
\* own: the query, then check_rate_limit for the current limits
GetUsageSummaryCall(hours) ==
    /\ reqCount < MaxCalls
    /\ usage_summary' = Some(GetUsageSummary(usage_records, now, hours))
    /\ usage_records' = CheckRateLimit(usage_records, now, tier, "default", "none").rows
    /\ reqCount' = reqCount + 1
    /\ UNCHANGED <<now, tier, resp, faultCount, limiterCall, tbVars, cacheVars,
                   routeVars>>

\* time passes, by less than a minute, a minute or an hour
AdvanceUsage ==
    /\ \E o \in ClockOffsets \cup {TicksPerHour} :
          StartClock + o > now /\ now' = StartClock + o
    /\ UNCHANGED <<rlVars, tbVars, cacheVars, routeVars>>

NextUsage ==
    \/ RecordedRequest
    \/ \E hours \in PeriodHours : GetUsageAnalytics(hours)
    \/ \E hours \in PeriodHours : GetUsageSummaryCall(hours)
    \/ AdvanceUsage

SpecUsage == InitUsage /\ [][NextUsage]_vars

\* the rows of the table that record_usage wrote in the window of the summary
Recorded(summary) ==
    {i \in InWindow(summary.rows, summary.at, summary.period_hours) :
        summary.rows[i].bucket = None}

RECURSIVE SumRequests(_, _)
SumRequests(breakdown, keys) ==
    IF keys = {} THEN 0
    ELSE LET k == CHOOSE x \in keys : TRUE
         IN breakdown[k].requests + SumRequests(breakdown, keys \ {k})

\* C18: the total_requests, successful_requests and failed_requests that
\* get_usage_summary returns for a time window count exactly the API requests
\* recorded by record_usage in that window: total = successful + failed, the
\* per-endpoint and the per-hour groups each sum to the total, and the rows
\* the rate limiter writes to hold token-bucket state are not counted.
C18_SummaryCountsRequests ==
    usage_summary # None =>
        LET summary == TheVal(usage_summary)
            recorded == Recorded(summary)
        IN /\ summary.total_requests = Cardinality(recorded)
           /\ summary.successful_requests =
                  Cardinality({i \in recorded : summary.rows[i].success})
           /\ summary.failed_requests =
                  Cardinality({i \in recorded : ~summary.rows[i].success})
           /\ summary.total_requests =
                  summary.successful_requests + summary.failed_requests
           /\ SumRequests(summary.endpoint_breakdown,
                          DOMAIN summary.endpoint_breakdown) = summary.total_requests
           /\ SumRequests(summary.hourly_breakdown,
                          DOMAIN summary.hourly_breakdown) = summary.total_requests

\* C28: get_usage_summary is read-only with respect to rate-limit state:
\* calling it for a key of any tier (the token-bucket enterprise tier
\* included) adds no usage record, consumes no token, and does not change the
\* allowed/remaining result of a later check_rate_limit for the same key.
C28_SummaryReadOnly ==
    [][\A hours \in PeriodHours :
        GetUsageSummaryCall(hours) =>
            /\ usage_records' = usage_records
            /\ ReadBucket(usage_records', now, TierConfig(tier), "default").tokens
                  = ReadBucket(usage_records, now, TierConfig(tier), "default").tokens
            /\ CheckRateLimit(usage_records', now, tier, "default", "none").result
                  = CheckRateLimit(usage_records, now, tier, "default", "none").result]_vars

----------------------------------------------------------------------------
(* Direct calls of RateLimiter.check_rate_limit for one key, one after the   *)
(* other, between requests that record_usage records under '/optimize'.      *)

LimiterEndpoints == {"default", "/optimize"}

\* the instants of the calls: the start, and around one window later
LimiterOffsets == ClockOffsets \cup {Window - 1, Window + 1}

\* the table after n requests recorded at the start
RecordedRows(n) == [i \in 1..n |-> UsageRow("/optimize", StartClock, TRUE)]

\* the tables the calls start from: the recorded requests of a key, or the
\* bucket row that earlier checks of a token-bucket key left
InitTables(billing_tier) ==
    IF TierConfig(billing_tier).strategy = "token_bucket"
    THEN {<<>>} \cup {<<BucketRow(BucketEndpoint("default"), StartClock, k)>> :
                         k \in InitBuckets}
    ELSE {RecordedRows(n) : n \in 0..MaxRequests}

InitLimiter ==
    /\ now = StartClock
    /\ tier \in Tiers
    /\ usage_records \in InitTables(tier)
    /\ resp = NoResponse
    /\ reqCount = 0
    /\ faultCount = 0
    /\ usage_summary = None
    /\ limiterCall = NoLimiterCall
    /\ TBIdle
    /\ CacheIdle
    /\ RouteIdle

\* rate_limiter.check_rate_limit(key_id, billing_tier, endpoint)
LimiterCheck(endpoint) ==
    /\ reqCount < MaxCalls
    /\ LET c == CheckRateLimit(usage_records, now, tier, endpoint, "none")
       IN /\ usage_records' = c.rows
          /\ limiterCall' = [billing_tier |-> tier, endpoint |-> endpoint,
                             current_time |-> now, rows |-> usage_records,
                             result |-> Some(c.result)]
    /\ reqCount' = reqCount + 1
    /\ UNCHANGED <<now, tier, resp, faultCount, usage_summary, tbVars, cacheVars,
                   routeVars>>

\* record_usage(key_id, '/optimize', ..., success, ...)
LimiterRecord(success) ==
    /\ reqCount < MaxCalls
    /\ usage_records' = RecordUsage(usage_records, now, "/optimize", success, "none")
    /\ reqCount' = reqCount + 1
    /\ UNCHANGED <<now, tier, resp, faultCount, usage_summary, limiterCall, tbVars,
                   cacheVars, routeVars>>

AdvanceLimiter ==
    /\ \E o \in LimiterOffsets : StartClock + o > now /\ now' = StartClock + o
    /\ UNCHANGED <<rlVars, tbVars, cacheVars, routeVars>>

NextLimiter ==
    \/ \E endpoint \in LimiterEndpoints : LimiterCheck(endpoint)
    \/ \E success \in BOOLEAN : LimiterRecord(success)
    \/ AdvanceLimiter

SpecLimiter == InitLimiter /\ [][NextLimiter]_vars

\* the usage records of the call's endpoint created within the 60 seconds
\* before the call
TrailingCount(call) ==
    Cardinality({i \in 1..Len(call.rows) :
                    /\ call.rows[i].endpoint = call.endpoint
                    /\ call.rows[i].created_at > call.current_time - Window})

\* C22: _check_sliding_window returns allowed = true if and only if the
\* number of usage records of the key and endpoint created within the
\* trailing 60 seconds is less than the tier's requests_per_minute, with
\* remaining = max(0, limit - count); an unknown billing tier is checked with
\* the starter configuration (sliding window, 10 per minute).
C22_SlidingWindowCount ==
    (limiterCall.result # None
        /\ TheVal(limiterCall.result).strategy = "sliding_window") =>
        LET result == TheVal(limiterCall.result)
            known == limiterCall.billing_tier \in DOMAIN tier_configs
            limit == IF known
                     THEN tier_configs[limiterCall.billing_tier].requests_per_minute
                     ELSE StarterPerMinute
            count == TrailingCount(limiterCall)
        IN /\ result.allowed <=> count < limit
           /\ result.limit = limit
           /\ result.remaining = Max(0, limit - count)

\* an unknown tier was denied at 10 records, a window after some of the
\* table's records were made
C22_Witness ==
    /\ limiterCall.result # None
    /\ limiterCall.billing_tier = "trial"
    /\ TheVal(limiterCall.result).strategy = "sliding_window"
    /\ ~TheVal(limiterCall.result).allowed
    /\ TheVal(limiterCall.result).remaining = 0
    /\ TrailingCount(limiterCall) = StarterPerMinute
    /\ limiterCall.current_time > StartClock

\* the token counts of the bucket rows of a table
StoredCounts(rows) ==
    {TheVal(rows[i].bucket).tokens : i \in {j \in 1..Len(rows) : rows[j].bucket # None}}

\* C23: for sequential _check_token_bucket calls on one key with a
\* non-decreasing clock, the stored token count always satisfies
\* 0 <= tokens <= capacity (requests_per_minute): each check first refills to
\* min(capacity, tokens + elapsed * capacity/60), allows if and only if the
\* refilled count is >= 1, and subtracts exactly 1 when it allows and nothing
\* when it denies.
C23_TokenBucketBounds ==
    [][\A endpoint \in LimiterEndpoints :
        (LimiterCheck(endpoint) /\ TierConfig(tier).strategy = "token_bucket") =>
            LET config == TierConfig(tier)
                capacity == config.requests_per_minute * TokenUnit
                before == ReadBucket(usage_records, now, config, endpoint)
                refilled == Min(capacity,
                                before.tokens + (now - before.last_refill)
                                                    * config.requests_per_minute)
                after == ReadBucket(usage_records', now, config, endpoint)
                result == TheVal(limiterCall'.result)
            IN /\ \A tokens \in StoredCounts(usage_records') :
                      0 <= tokens /\ tokens <= capacity
               /\ result.allowed <=> refilled >= TokenUnit
               /\ result.allowed => after.tokens = refilled - TokenUnit
               /\ ~result.allowed => after.tokens = refilled
               /\ after.last_refill = now]_vars

\* a bucket of one and a half tokens was checked twice: the second check was
\* denied and left the half token
C23_Witness ==
    /\ limiterCall.result # None
    /\ TheVal(limiterCall.result).strategy = "token_bucket"
    /\ ~TheVal(limiterCall.result).allowed
    /\ Len(usage_records) = 3
    /\ StoredCounts(usage_records) = {TokenUnit + TokenUnit \div 2, TokenUnit \div 2}

\* C29: whenever check_rate_limit returns allowed = false, under any
\* strategy and at any instant of the window, the result carries a
\* retry_after that is an integer >= 1, so to_headers emits a Retry-After
\* header.
C29_DenialHasRetryAfter ==
    (limiterCall.result # None /\ ~TheVal(limiterCall.result).allowed) =>
        /\ \E v \in TheVal(limiterCall.result).retry_after : v >= 1
        /\ HasRetryAfterHeader(TheVal(limiterCall.result))

----------------------------------------------------------------------------
(* Concurrent POST /optimize requests of one sliding-window key: each request *)
(* passes get_api_key (validate_api_key, check_rate_limit), computes its      *)
(* route, and then records its usage; the event loop may run another request  *)
(* in between.                                                                *)

SlidingTiers == {t \in Tiers : TierConfig(t).strategy = "sliding_window"}

InitRace ==
    /\ now = StartClock
    /\ tier \in SlidingTiers
    /\ usage_records \in {RecordedRows(n) :
                            n \in {m \in 0..MaxRequests :
                                      m <= TierConfig(tier).requests_per_minute}}
    /\ resp = NoResponse
    /\ reqCount = 0
    /\ faultCount = 0
    /\ usage_summary = None
    /\ limiterCall = NoLimiterCall
    /\ TBIdle
    /\ CacheIdle
    /\ RouteIdle

\* the dependency get_api_key of the request of caller c
RaceCheck(c) ==
    /\ tbpc[c] = "idle"
    /\ LET g == GetApiKey(usage_records, now, tier, "none")
       IN /\ usage_records' = g.rows
          /\ tbLocal' = [tbLocal EXCEPT ![c] = Some(g.resp)]
          /\ tbpc' = [tbpc EXCEPT ![c] = IF g.pass THEN "accepted" ELSE "done"]
    /\ UNCHANGED <<now, tier, resp, reqCount, faultCount, usage_summary, limiterCall,
                   tbResult, tbBase, cacheVars, routeVars>>

\* optimize_route of caller c after the route was computed: record_usage
RaceRecord(c) ==
    /\ tbpc[c] = "accepted"
    /\ LET h == OptimizeRoute([rows |-> usage_records, resp |-> TheVal(tbLocal[c])],
                              now, "none")
       IN /\ usage_records' = h.rows
          /\ resp' = h.resp
    /\ tbpc' = [tbpc EXCEPT ![c] = "done"]
    /\ UNCHANGED <<now, tier, reqCount, faultCount, usage_summary, limiterCall,
                   tbLocal, tbResult, tbBase, cacheVars, routeVars>>

NextRace ==
    \/ \E c \in Callers : RaceCheck(c)
    \/ \E c \in Callers : RaceRecord(c)
    \/ Advance

SpecRace == InitRace /\ [][NextRace]_vars

\* the requests accepted and recorded within the trailing 60 seconds
AcceptedInWindow ==
    Cardinality({i \in 1..Len(usage_records) :
                    /\ usage_records[i].bucket = None
                    /\ usage_records[i].created_at > now - Window})

\* C27: for a sliding-window key, under every interleaving of concurrent
\* requests (each request: check_rate_limit, then route computation, then
\* record_usage), the number of requests accepted within any trailing
\* 60-second window never exceeds the tier's requests_per_minute.
C27_WindowNeverExceeded ==
    AcceptedInWindow <= TierConfig(tier).requests_per_minute

----------------------------------------------------------------------------
(* Size accounting of GraphCache *)

\* the sum of the recorded sizes of the entries of a cache
RECURSIVE RecordedSize(_)
RecordedSize(cache) ==
    IF cache = <<>> THEN 0 ELSE Head(cache).size + RecordedSize(Tail(cache))

\* C30: after any sequence of GraphCache set, get and clear calls (overwrites
\* of an existing key, expiry evictions in get and capacity evictions in set
\* included), _current_size_bytes equals the sum of the recorded sizes of the
\* entries currently stored, and is 0 when the cache is empty.
C30_SizeIsSumOfEntries ==
    /\ gsize = RecordedSize(gcache)
    /\ gcache = <<>> => gsize = 0

\* a get has just dropped an expired entry while a younger entry stays, and
\* the byte total is that entry's size
C30_Witness ==
    /\ cacheOut.cache = "graph"
    /\ cacheOut.op = "get"
    /\ cacheOut.expired
    /\ Len(gcache) = 1
    /\ gcache[1].timestamp > StartClock
    /\ gsize = gcache[1].size

----------------------------------------------------------------------------
(* Capacity of the route caches: inserts into the cache of the OSRM engine   *)
(* by its optimize calls, or set_route and get_route calls on a RouteCache   *)

InitCapacity ==
    /\ now = StartClock
    /\ tier \in {"starter"}
    /\ usage_records = <<>>
    /\ resp = NoResponse
    /\ reqCount = 0
    /\ faultCount = 0
    /\ usage_summary = None
    /\ limiterCall = NoLimiterCall
    /\ TBIdle
    /\ gcache = <<>>
    /\ gsize = 0
    /\ rcache = <<>>
    /\ cacheOut \in {NoCall, NoCallOn("route")}
    /\ gUsed = <<>>
    /\ rUsed = <<>>
    /\ FilterIdle
    /\ roads = KeyRoads
    /\ optOut = NoOptimize
    /\ KeysIdle
    /\ SearchIdle

NextCapacity ==
    \/ \E request \in KeyRequests, osrm_ok \in BOOLEAN :
          cacheOut = NoCall /\ OsrmOptimize(request, osrm_ok)
    \/ \E k \in Keys, v \in Routes : RCSet(k, v)
    \/ \E k \in Keys : RCGet(k)
    \/ AdvanceKeys

SpecCapacity == InitCapacity /\ [][NextCapacity]_vars

\* the entries of the cache before that are gone from the cache after
Removed(before, after) ==
    {i \in 1..Len(before) : ~HasKey(after, before[i].key)}

\* C24: after any sequence of inserts the number of entries in the route
\* cache is at most its capacity: the cache embedded in the OSRM engine holds
\* at most 1000 entries (EngineCacheMax here) when optimize returns, removing
\* the 100 entries (EngineCacheEvict here) with the oldest insertion time at
\* once when an insert makes it exceed the capacity, and RouteCache never
\* holds more than max_items entries.
C24_RouteCachesBounded ==
    [][/\ Len(engineCache') <= EngineCacheMax
       /\ Len(rcache') <= MaxItems
       /\ engineCache' # engineCache =>
             LET key == GetCacheKey(TheVal(optOut'.request))
                 exceeds == Len(engineCache) = EngineCacheMax
                                /\ ~HasKey(engineCache, key)
                 stored == StoreResult(engineCache, key, TheVal(optOut'.response), now)
                 removed == Removed(stored, engineCache')
             IN /\ Cardinality(removed) = IF exceeds THEN EngineCacheEvict ELSE 0
                /\ \A i \in removed :
                      \A j \in 1..Len(stored) :
                          j \notin removed =>
                              stored[i].timestamp <= stored[j].timestamp
                /\ \A j \in 1..Len(stored) :
                      j \notin removed =>
                          /\ HasKey(engineCache', stored[j].key)
                          /\ Entry(engineCache', stored[j].key) = stored[j]]_vars

\* the OSRM engine has just stored a third route at a later instant and
\* dropped the oldest one
C24_Witness ==
    /\ optOut.engine = "osrm"
    /\ ~optOut.cached
    /\ optOut.response # None
    /\ Len(engineCache) = EngineCacheMax + 1 - EngineCacheEvict
    /\ reqCount > EngineCacheMax
    /\ \E i \in 1..Len(engineCache) : engineCache[i].timestamp = now
    /\ \A i \in 1..Len(engineCache) : engineCache[i].timestamp > StartClock

\* a RouteCache at capacity has just been given a route for a new key and
\* holds max_items entries, the oldest one gone
C24_WitnessRouteCache ==
    /\ cacheOut.cache = "route"
    /\ cacheOut.op = "set"
    /\ Len(rcache) = MaxItems
    /\ rcache[Len(rcache)].key = cacheOut.key
    /\ rcache[1].timestamp > StartClock

----------------------------------------------------------------------------
(* AStarOptimizer.optimize_route on a long-distance network: nx.astar_path *)
(* followed step by step with the heuristic of optimize_route,             *)
(* gnn/optimizer/astar.py.  Distances and weights are in units of 1e-7 km. *)

\* AStarOptimizer._haversine_distance for two points of one meridian: with
\* dlng = 0, a = sin(dlat / 2) ** 2 and c = |dlat| in radians, so that the
\* result is 6371 * |dlat| * pi / 180, 111.195 km for a degree
HaversineDistance(a, b) ==
    LET dlat == IF a[1] >= b[1] THEN a[1] - b[1] ELSE b[1] - a[1]
    IN (dlat \div 1000) * 111195 + ((dlat % 1000) * 111195) \div 1000

\* heuristic(node) of optimize_route: the distance to the destination node
Heuristic(node, destination_node) ==
    HaversineDistance(NodeCoord(node), NodeCoord(destination_node))

\* the path nx.astar_path builds from the parents it recorded; 0 is None
RECURSIVE BuildPath(_, _)
BuildPath(explored, node) ==
    IF node = 0 THEN <<>> ELSE BuildPath(explored, explored[node]) \o <<node>>

\* the loop of nx.astar_path: pop an entry of least cost + heuristic, return
\* at the target, skip a node explored at a lower cost, else record its
\* parent and push every neighbour not yet enqueued at a cost as low.  The
\* result is the set of paths it can return (entries of equal priority in
\* either order), empty for NetworkXNoPath.
RECURSIVE AStarLoop(_, _, _, _, _)
AStarLoop(cost, target, queue, enqueued, explored) ==
    IF queue = {} THEN {}
    ELSE UNION {
        LET rest == queue \ {top}
            curnode == top.node
            pushed == {e \in DOMAIN cost :
                         /\ e[1] = curnode
                         /\ e[2] \in DOMAIN enqueued =>
                               enqueued[e[2]] > top.dist + cost[e]}
            entries == {[priority |-> top.dist + cost[e] + Heuristic(e[2], target),
                         node |-> e[2], dist |-> top.dist + cost[e],
                         parent |-> curnode] : e \in pushed}
            costs == [n \in {e[2] : e \in pushed} |-> top.dist + cost[<<curnode, n>>]]
        IN IF curnode = target
           THEN {BuildPath(explored, top.parent) \o <<target>>}
           ELSE IF /\ curnode \in DOMAIN explored
                   /\ \/ explored[curnode] = 0
                      \/ enqueued[curnode] < top.dist
                THEN AStarLoop(cost, target, rest, enqueued, explored)
                ELSE AStarLoop(cost, target, rest \cup entries, costs @@ enqueued,
                               (curnode :> top.parent) @@ explored)
        : top \in {q \in queue : \A r \in queue : q.priority <= r.priority}}

\* nx.astar_path(graph, source, target, heuristic, weight)
AStarPath(graph, source, target, weight) ==
    AStarLoop(EdgeAttr(graph, weight, 1), target,
              {[priority |-> 0, node |-> source, dist |-> 0, parent |-> 0]},
              [n \in {} |-> 0], [n \in {} |-> 0])

\* the results of optimize_route: a RouteResult, or None on NetworkXNoPath
AStarResults(graph, source, target) ==
    LET paths == AStarPath(graph, source, target, "weight")
    IN IF paths = {} THEN {None}
       ELSE {Some(RouteResult(path, CalculateMetrics(graph, path), "astar")) :
                path \in paths}

\* every criterion of _add_optimization_weights
AllCriteria == {"distance", "time", "cost", "emissions", "balanced"}

\* a straight road between two nodes, its length in metres rounded up
StraightRoad(u, v, road_type, speed_limit) ==
    [road_type |-> road_type, speed_limit |-> speed_limit,
     length |-> (HaversineDistance(NodeCoord(u), NodeCoord(v)) + 9999) \div 10000]

RoadKinds == {<<"motorway", 120>>, <<"residential", 30>>}

\* node 6 joined to node 5 by a direct road and by a road over node 7, which
\* lies a kilometre further from node 5
HighwayGraphs ==
    {[nodes |-> {5, 6, 7},
      edges |-> (<<6, 5>> :> StraightRoad(6, 5, direct[1], direct[2]))
                   @@ (<<6, 7>> :> StraightRoad(6, 7, first[1], first[2]))
                   @@ (<<7, 5>> :> StraightRoad(7, 5, second[1], second[2]))] :
        direct \in RoadKinds, first \in RoadKinds, second \in RoadKinds}

InitAStar ==
    /\ now = StartClock
    /\ tier \in {"starter"}
    /\ usage_records = <<>>
    /\ resp = NoResponse
    /\ reqCount = 0
    /\ faultCount = 0
    /\ usage_summary = None
    /\ limiterCall = NoLimiterCall
    /\ TBIdle
    /\ CacheIdle
    /\ FilterIdle
    /\ OptIdle
    /\ KeysIdle
    /\ \E g \in HighwayGraphs, c \in AllCriteria :
          search = [NoSearch EXCEPT !.state = "INITIALIZED",
                                    !.graph = AddWeightsToGraph(g, CriteriaWeights(c))]

\* nx.astar_path returns or raises and optimize_route returns
AStarEnd ==
    /\ search.state = "SEARCHING"
    /\ \E result \in AStarResults(search.graph, search.origin, search.destination) :
          search' = [search EXCEPT
                        !.state = IF result = None THEN "NO_PATH" ELSE "FOUND",
                        !.result = result,
                        !.end_time = now]
    /\ UNCHANGED <<now, rlVars, tbVars, cacheVars, filterVars, optVars, keyVars>>

NextAStar ==
    \/ \E origin_node, destination_node \in {5, 6, 7} :
          SearchBegin(origin_node, destination_node)
    \/ SearchTick
    \/ AStarEnd

SpecAStar == InitAStar /\ [][NextAStar]_vars

\* the least total weight of a path from node to destination_node
RemainingWeight(graph, node, destination_node) ==
    LET best == CHOOSE p \in ShortestPaths(graph, node, destination_node, "weight") : TRUE
    IN PathSum(EdgeAttr(graph, "weight", 1), best, 1)

Admissible(graph, destination_node) ==
    \A node \in graph.nodes :
        Paths(graph, node, destination_node) # {} =>
            Heuristic(node, destination_node)
                <= RemainingWeight(graph, node, destination_node)

\* C21: for every criterion's edge weighting and every node, the haversine
\* heuristic is at most the least total weight of a path from the node to the
\* destination, and optimize_route returns a path of least total weight
\* whenever a path exists.
C21_AStarOptimal ==
    search.state \in {"FOUND", "NO_PATH"} =>
        /\ Admissible(search.graph, search.destination)
        /\ Paths(search.graph, search.origin, search.destination) # {} =>
              /\ search.result # None
              /\ TheVal(search.result).path \in
                    ShortestPaths(search.graph, search.origin,
                                  search.destination, "weight")

====
